---------------------------- MODULE Spec2Model ----------------------------
(***************************************************************************)
(* Ensemble anomaly detection of red-team-anomaly-detection:               *)
(*   AnomalyDetector (src/pipeline/detect.py) and                          *)
(*   ModelTrainer    (src/models/train.py), with the training loop of      *)
(*   run_full_pipeline (main.py).                                          *)
(*                                                                         *)
(* A DataFrame is a sequence of columns in insertion order; a column is a  *)
(* record [key, vals] whose key is the pair <<model name, suffix>> (the    *)
(* column "{name}_prediction" is <<name, "prediction">>) and whose vals is *)
(* a vector indexed by the rows of the input feature matrix.  Detectors    *)
(* are black boxes: every call of predict / score_samples either raises or *)
(* returns some vector.  Real-valued quantities are exact rationals.       *)
(***************************************************************************)
EXTENDS Integers, Sequences, FiniteSets, TLC

\* ---------------------------------------------------------------- bounds
NumRows == 2
MaxEnabled == 3

Rows == 1 .. NumRows

\* names of detectors that may appear as prediction/score columns
Names == {"isolation_forest", "lstm", "one_class_svm"}
NameOrder == <<"isolation_forest", "lstm", "one_class_svm">>
\* artifacts that may lie in the model store when the detector is constructed
StoreNames == {"isolation_forest", "lstm"}
\* names a training configuration may ask for ("stacking_net" has no class)
TrainNames == {"isolation_forest", "autoencoder", "lstm", "stacking_net"}
ArtifactNames == Names \cup TrainNames

Labels == {-1, 1}
Methods == {"voting", "weighted", "stacking"}
WeightVals == {0, 1, 3}

NoWeights == [n \in {} |-> 0]
WeightMaps(N, V) == UNION {[D -> V] : D \in SUBSET N}

PredVecs == [Rows -> Labels]
\* raw scores a black-box detector hands back to detect
DetectorScores == 0 .. 1
\* raw scores of the columns _ensemble_score is applied to: a lowest, a
\* highest and an interior value
ColumnScores == 0 .. 2
ScoreVecs(S) == [Rows -> S]

\* ------------------------------------------------------------- rationals
RECURSIVE GCD(_, _)
GCD(a, b) == IF b = 0 THEN a ELSE GCD(b, a % b)

Abs(x) == IF x < 0 THEN -x ELSE x

\* the rational n/d (d > 0) in lowest terms
Frac(n, d) ==
    LET g == GCD(Abs(n), d)
    IN  [num |-> n \div g, den |-> d \div g]

FracAdd(p, q) == Frac(p.num * q.den + q.num * p.den, p.den * q.den)

FracDivInt(p, k) == Frac(p.num, p.den * k)

\* ------------------------------------------------------------ DataFrames
EmptyFrame == << >>

HasCol(df, key) == \E i \in 1 .. Len(df) : df[i].key = key

GetCol(df, key) == df[CHOOSE i \in 1 .. Len(df) : df[i].key = key].vals

\* df[key] = vals : overwrite in place, or append as the last column
SetCol(df, key, vals) ==
    IF HasCol(df, key)
    THEN [i \in 1 .. Len(df) |->
            IF df[i].key = key THEN [key |-> key, vals |-> vals] ELSE df[i]]
    ELSE Append(df, [key |-> key, vals |-> vals])

\* [col for col in results.columns if col.endswith(suffix)]
ColsEndingWith(df, suffix) == SelectSeq(df, LAMBDA c : c.key[2] = suffix)

PredKey(name) == <<name, "prediction">>
ScoreKey(name) == <<name, "score">>
EnsemblePredKey == <<"ensemble", "prediction">>
EnsembleScoreKey == <<"ensemble", "score">>
IsAnomalyKey == <<"is_anomaly", "">>

\* ------------------------------------------------- _ensemble_predict
CountOf(vals, v) == Cardinality({i \in 1 .. Len(vals) : vals[i] = v})

\* a mode that forgets to count: the smallest value of the row
ModeFirstSmallest(vals) ==
    LET vs == {vals[i] : i \in 1 .. Len(vals)}
    IN  CHOOSE v \in vs : \A w \in vs : v <= w

\* DataFrame.mode(axis=1)[0]: the modes of a row come back sorted, column 0
\* is the smallest of the most frequent values
ModeFirst(vals) ==
    LET vs == {vals[i] : i \in 1 .. Len(vals)}
    IN  CHOOSE v \in vs :
            \A w \in vs : \/ CountOf(vals, v) > CountOf(vals, w)
                          \/ CountOf(vals, v) = CountOf(vals, w) /\ v <= w

RowOf(cols, r) == [i \in 1 .. Len(cols) |-> cols[i].vals[r]]

\* a vote settled by the detector registered first
VotingFirstColumn(pred_cols) == [r \in Rows |-> pred_cols[1].vals[r]]

Voting(pred_cols) == [r \in Rows |-> ModeFirst(RowOf(pred_cols, r))]

\* a lookup that ignores the configured weights
WeightOfUniform(weights, model_name) == 1

\* weights.get(model_name, 1.0)
WeightOf(weights, model_name) ==
    IF model_name \in DOMAIN weights THEN weights[model_name] ELSE 1

RECURSIVE WeightedSum(_, _, _)
WeightedSum(pred_cols, weights, r) ==
    IF pred_cols = << >> THEN 0
    ELSE WeightOf(weights, Head(pred_cols).key[1]) * Head(pred_cols).vals[r]
         + WeightedSum(Tail(pred_cols), weights, r)

RECURSIVE TotalWeight(_, _)
TotalWeight(pred_cols, weights) ==
    IF pred_cols = << >> THEN 0
    ELSE WeightOf(weights, Head(pred_cols).key[1])
         + TotalWeight(Tail(pred_cols), weights)

\* (n / d) < 0 in floating point: n / 0 is -inf, +inf or nan, never an error
QuotientNegative(n, d) ==
    \/ d > 0 /\ n < 0
    \/ d < 0 /\ n > 0
    \/ d = 0 /\ n < 0

Weighted(pred_cols, weights) ==
    [r \in Rows |->
        IF QuotientNegative(WeightedSum(pred_cols, weights, r),
                            TotalWeight(pred_cols, weights))
        THEN -1 ELSE 1]

\* an unknown method falling through to the weighted rule
EnsemblePredictElseWeighted(df, cfg) ==
    LET pred_cols == ColsEndingWith(df, "prediction")
    IN  IF pred_cols = << >> THEN [r \in Rows |-> 1]
        ELSE IF cfg.method = "voting" THEN Voting(pred_cols)
        ELSE Weighted(pred_cols, cfg.weights)

EnsemblePredict(df, cfg) ==
    LET pred_cols == ColsEndingWith(df, "prediction")
    IN  IF pred_cols = << >> THEN [r \in Rows |-> 1]
        ELSE IF cfg.method = "voting" THEN Voting(pred_cols)
        ELSE IF cfg.method = "weighted" THEN Weighted(pred_cols, cfg.weights)
        ELSE Voting(pred_cols)

\* --------------------------------------------------- _ensemble_score
ColMin(vals) == CHOOSE m \in {vals[r] : r \in Rows} : \A r \in Rows : m <= vals[r]
ColMax(vals) == CHOOSE m \in {vals[r] : r \in Rows} : \A r \in Rows : m >= vals[r]

\* a normalisation that divides by the maximum instead of the range
NormalizedByMax(vals) ==
    IF ColMax(vals) > ColMin(vals)
    THEN [r \in Rows |-> Frac(vals[r] - ColMin(vals), ColMax(vals))]
    ELSE [r \in Rows |-> Frac(0, 1)]

Normalized(vals) ==
    IF ColMax(vals) > ColMin(vals)
    THEN [r \in Rows |-> Frac(vals[r] - ColMin(vals), ColMax(vals) - ColMin(vals))]
    ELSE [r \in Rows |-> Frac(0, 1)]

RECURSIVE RowSum(_, _)
RowSum(score_cols, r) ==
    IF score_cols = << >> THEN Frac(0, 1)
    ELSE FracAdd(Normalized(Head(score_cols).vals)[r], RowSum(Tail(score_cols), r))

EnsembleScore(df) ==
    LET score_cols == ColsEndingWith(df, "score")
    IN  IF score_cols = << >> THEN [r \in Rows |-> Frac(0, 1)]
        ELSE [r \in Rows |-> FracDivInt(RowSum(score_cols, r), Len(score_cols))]


\* ------------------------------------------------------------------ state
VARIABLES
    store,            \* model store directory: artifact name -> id of the
                      \*   pickled detector (0: no such file)
    config,           \* AnomalyDetector.ensemble_config
    models,           \* AnomalyDetector.models, a dict in insertion order
    pc,               \* position of the caller of AnomalyDetector
    idx,              \* registry entries the loop of detect has completed
    results,          \* the DataFrame detect builds and returns
    outcome,          \* how detect ended: "none", "returned" or "raised"
    log,              \* loguru records emitted: <<level, event, subject>>
    features,         \* the DataFrame handed to detect: its index and the
                      \*   values of its numeric column
    results_index,    \* results.index
    failed,           \* history: <<name, "predict" | "score">> of every call
                      \*   that raised inside the loop of detect
    t_mode,           \* entry point used on ModelTrainer
    model_name,       \* argument of a direct train_model call
    enabled_models,   \* config['enabled_models']
    t_pc,             \* position of the training run
    t_idx,            \* entries of enabled_models the loop has completed
    fitted,           \* detectors whose fit was entered
    trained_models,   \* keys of the dict train_all_models returns
    t_outcome,        \* how the training run ended
    attempted,        \* history: [name, result] of every train-and-save
                      \*   attempt, in the order made
    saved,            \* history: [name, artifact] of every direct save_model
                      \*   call, in the order made
    loaded,           \* what the last load_model call returned (0: nothing)
    fe_pc,            \* position of the caller of the feature engineering
    combined,         \* transform: the extracted features, concatenated
    transformed,      \* transform: the DataFrame it returns
    columns,          \* df.columns of the event table given to the extractors
    fe_config,        \* the feature names the configuration enables
    extracted,        \* the columns the extractors emit: [name, fill], fill
                      \*   saying what the column holds when no data is read
    events,           \* the rows of the event table: [session_id, timestamp]
    session_out,      \* the session features extracted from them
    a_kind,           \* the adapter class under test
    sequence_length,  \* LSTMDetector.sequence_length (0 for the autoencoder)
    threshold_value,  \* the adapter's threshold_value (-1: not set yet)
    fit_threshold,    \* history: the threshold the last fit computed
    a_pc,             \* last method called on the adapter
    a_batch,          \* the batch X of that call, each row given by the
                      \*   error the network yields for it
    a_result,         \* what that call did: [how, vals]
    matrix,           \* the feature matrix given to save_features
    suffix,           \* Path(output_path).suffix of the feature file
    feature_file,     \* what the file at that path holds
    save_result,      \* how save_features ended
    reloaded,         \* what load_features did: [how, df]
    aggregations,     \* config['aggregations'], the list of function names
    timestamp_dtype,  \* dtype of the 'timestamp' column of the caller's
                      \*   event table ("absent": no such column)
    enabled_extractors \* the extractors the configuration enables

detect_vars == <<config, models, pc, idx, results, outcome, failed, features,
                 results_index>>
io_vars == <<saved, loaded>>
session_vars == <<events, session_out>>
fe_vars == <<fe_pc, combined, transformed, columns, fe_config, extracted,
             session_vars>>
adapter_vars == <<a_kind, sequence_length, threshold_value, fit_threshold, a_pc,
                  a_batch, a_result>>
file_vars == <<matrix, suffix, feature_file, save_result, reloaded>>
input_vars == <<timestamp_dtype, enabled_extractors>>
ext_vars == <<file_vars, aggregations, input_vars>>
rest_vars == <<fe_vars, adapter_vars, ext_vars>>
train_vars == <<t_mode, model_name, enabled_models, t_pc, t_idx, fitted,
                trained_models, t_outcome, attempted, io_vars, rest_vars>>
vars == <<store, log, detect_vars, train_vars>>

\* pandas' default index 0 .. n-1, and an index of other labels
RangeIndex == [r \in Rows |-> r - 1]
LabelIndex == [r \in Rows |-> 10 * (NumRows + 1 - r)]

\* feature tables detect may be given: an index and one numeric column
RangeTable == [index |-> RangeIndex, values |-> [r \in Rows |-> 0]]
FeatureTables ==
    {RangeTable, [index |-> LabelIndex, values |-> [r \in Rows |-> r % 2]]}

EmptyStore == [n \in ArtifactNames |-> 0]

Stored(st) == {n \in ArtifactNames : st[n] > 0}

Configs(weightSet) ==
    [enabled : BOOLEAN, method : Methods, weights : weightSet]

NoResult == [how |-> "none", vals |-> << >>]

AdapterIdle ==
    /\ a_kind = "none"
    /\ sequence_length = 0
    /\ threshold_value = -1
    /\ fit_threshold = -1
    /\ a_pc = "idle"
    /\ a_batch = << >>
    /\ a_result = NoResult

NoFile == [format |-> "none"]

FeatureFileIdle ==
    /\ matrix = << >>
    /\ suffix = ""
    /\ feature_file = NoFile
    /\ save_result = "none"
    /\ reloaded = NoResult

AggregationsIdle == aggregations = << >>

InputIdle == timestamp_dtype = "absent" /\ enabled_extractors = {}

NoSessionFeatures ==
    [session_duration |-> << >>, action_frequency |-> << >>,
     action_velocity |-> << >>]

ExtractorsIdle ==
    /\ columns = {}
    /\ fe_config = {}
    /\ extracted = << >>
    /\ events = << >>
    /\ session_out = NoSessionFeatures

FeatureEngineerIdle ==
    /\ fe_pc = "idle"
    /\ combined = << >>
    /\ transformed = << >>
    /\ ExtractorsIdle

TrainIdle ==
    /\ t_mode = "none"
    /\ model_name = ""
    /\ enabled_models = << >>
    /\ t_pc = "idle"
    /\ t_idx = 0
    /\ fitted = {}
    /\ trained_models = {}
    /\ t_outcome = "none"
    /\ attempted = << >>
    /\ saved = << >>
    /\ loaded = 0

\* AnomalyDetector.__init__ : an empty registry over some model store
DetectorConstructed(weightSet) ==
    /\ config \in Configs(weightSet)
    /\ models = << >>
    /\ pc = "init"
    /\ idx = 0
    /\ results = EmptyFrame
    /\ outcome = "none"
    /\ failed = {}
    /\ results_index = << >>

\* a freshly constructed detector over any model store; a configured weight
\* is 3, an unconfigured one defaults to 1
Init ==
    /\ store \in {st \in [ArtifactNames -> {0, 1}] : Stored(st) \subseteq StoreNames}
    /\ log = {}
    /\ DetectorConstructed(WeightMaps(StoreNames, {3}))
    /\ features = RangeTable
    /\ TrainIdle
    /\ AdapterIdle
    /\ FeatureFileIdle
    /\ AggregationsIdle
    /\ InputIdle
    /\ FeatureEngineerIdle

\* ------------------------------------------------------------ load_models
Perms(S) ==
    {s \in [1 .. Cardinality(S) -> S] :
        \A i, j \in 1 .. Cardinality(S) : i # j => s[i] # s[j]}

RegNames(reg) == {reg[i].name : i \in 1 .. Len(reg)}

\* self.models[model_name] = model
DictSet(reg, name, artifact) ==
    IF name \in RegNames(reg)
    THEN [i \in 1 .. Len(reg) |->
            IF reg[i].name = name
            THEN [name |-> name, artifact |-> artifact] ELSE reg[i]]
    ELSE Append(reg, [name |-> name, artifact |-> artifact])

RECURSIVE LoadEach(_, _, _, _)
LoadEach(reg, files, bad, st) ==
    IF files = << >> THEN reg
    ELSE LoadEach(IF Head(files) \in bad THEN reg
                  ELSE DictSet(reg, Head(files), st[Head(files)]),
                  Tail(files), bad, st)

LoadModels ==
    /\ pc = "init"
    /\ \E files \in Perms(Stored(store)) : \E bad \in SUBSET Stored(store) :
          /\ models' = LoadEach(models, files, bad, store)
          /\ log' = log \cup {<<"info", "load_models", "">>}
                        \cup {<<"info", "loading", n>> : n \in Stored(store)}
                        \cup {<<"error", "failed_to_load", n>> : n \in bad}
                        \cup {<<"success", "loaded", "">>}
    /\ pc' = "loaded"
    /\ UNCHANGED <<store, config, idx, results, outcome, failed, features,
                   results_index, train_vars>>

\* ----------------------------------------------------------------- detect
\* lines 63-67 as they would be if results were built without the index of
\* the features
DetectBeginDefaultIndex ==
    /\ pc \in {"init", "loaded"}
    /\ pc' = "loop"
    /\ idx' = 0
    /\ results' = EmptyFrame
    /\ results_index' = RangeIndex
    /\ log' = log \cup {<<"info", "running_detection", "">>}
    /\ UNCHANGED <<store, config, models, outcome, failed, features, train_vars>>

\* lines 63-67: results = pd.DataFrame(index=features.index)
DetectBegin ==
    /\ pc \in {"init", "loaded"}
    /\ pc' = "loop"
    /\ idx' = 0
    /\ results' = EmptyFrame
    /\ results_index' = features.index
    /\ log' = log \cup {<<"info", "running_detection", "">>}
    /\ UNCHANGED <<store, config, models, outcome, failed, features, train_vars>>

\* what one call of model.predict(X) does
PredictOutcomes ==
    {[how |-> "raise", vals |-> << >>]}
        \cup {[how |-> "ok", vals |-> v] : v \in PredVecs}

\* what the scoring branch does: "none" when the object has neither
\* score_samples nor decision_function, "raise" when the method or the
\* assignment of its result raises
ScoreOutcomes ==
    {[how |-> h, vals |-> << >>] : h \in {"none", "raise"}}
        \cup {[how |-> "ok", vals |-> v] : v \in ScoreVecs(DetectorScores)}

\* lines 73-87, the body of the try for one registry entry
AfterModel(df, name, p, s) ==
    IF p.how = "raise" THEN df
    ELSE IF s.how # "ok" THEN SetCol(df, PredKey(name), p.vals)
    ELSE SetCol(SetCol(df, PredKey(name), p.vals), ScoreKey(name), s.vals)

\* logger.error in the except clause of the loop
ModelRaised(p, s) == p.how = "raise" \/ s.how = "raise"

\* the loop body as it would be if a detector that raised were dropped from
\* the registry
RunModelEvict ==
    /\ pc = "loop"
    /\ idx < Len(models)
    /\ LET name == models[idx + 1].name
       IN  \E p \in PredictOutcomes : \E s \in ScoreOutcomes :
              /\ p.how = "raise" => s.how = "none"
              /\ results' = AfterModel(results, name, p, s)
              /\ log' = log \cup {<<"info", "running", name>>}
                     \cup (IF ModelRaised(p, s)
                           THEN {<<"error", "error_running", name>>} ELSE {})
              /\ failed' = failed
                     \cup (IF p.how = "raise" THEN {<<name, "predict">>} ELSE {})
                     \cup (IF s.how = "raise" THEN {<<name, "score">>} ELSE {})
              /\ IF ModelRaised(p, s)
                 THEN /\ models' = SelectSeq(models, LAMBDA m : m.name # name)
                      /\ idx' = idx
                 ELSE /\ models' = models
                      /\ idx' = idx + 1
    /\ UNCHANGED <<store, config, pc, outcome, features, results_index,
                   train_vars>>

RunModel ==
    /\ pc = "loop"
    /\ idx < Len(models)
    /\ LET name == models[idx + 1].name
       IN  \E p \in PredictOutcomes : \E s \in ScoreOutcomes :
              /\ p.how = "raise" => s.how = "none"
              /\ results' = AfterModel(results, name, p, s)
              /\ log' = log \cup {<<"info", "running", name>>}
                     \cup (IF ModelRaised(p, s)
                           THEN {<<"error", "error_running", name>>} ELSE {})
              /\ failed' = failed
                     \cup (IF p.how = "raise" THEN {<<name, "predict">>} ELSE {})
                     \cup (IF s.how = "raise" THEN {<<name, "score">>} ELSE {})
    /\ idx' = idx + 1
    /\ UNCHANGED <<store, config, models, pc, outcome, features, results_index,
                   train_vars>>

\* lines 89-92
WithEnsemble(df, cfg) ==
    IF cfg.enabled
    THEN LET df1 == SetCol(df, EnsemblePredKey, EnsemblePredict(df, cfg))
         IN  SetCol(df1, EnsembleScoreKey, EnsembleScore(df1))
    ELSE df

\* lines 89-100: results['ensemble_prediction'] is a KeyError when absent
DetectFinish ==
    /\ pc = "loop"
    /\ idx = Len(models)
    /\ LET df == WithEnsemble(results, config)
       IN  IF HasCol(df, EnsemblePredKey)
           THEN /\ results' = SetCol(df, IsAnomalyKey,
                       [r \in Rows |-> GetCol(df, EnsemblePredKey)[r] = -1])
                /\ outcome' = "returned"
                /\ log' = log \cup {<<"info", "detected", "">>}
           ELSE /\ results' = df
                /\ outcome' = "raised"
                /\ log' = log
    /\ pc' = "done"
    /\ UNCHANGED <<store, config, models, idx, failed, features, results_index,
                   train_vars>>

Next == LoadModels \/ DetectBegin \/ RunModel \/ DetectFinish

Spec == Init /\ [][Next]_vars

\* detect over a full model store, for any feature table
FullStore == [n \in ArtifactNames |-> IF n \in StoreNames THEN 1 ELSE 0]

InitDetect ==
    /\ store = FullStore
    /\ log = {}
    /\ DetectorConstructed({NoWeights})
    /\ features \in FeatureTables
    /\ TrainIdle
    /\ AdapterIdle
    /\ FeatureFileIdle
    /\ AggregationsIdle
    /\ InputIdle
    /\ FeatureEngineerIdle

SpecDetect == InitDetect /\ [][Next]_vars


\* ------------------------------------------- _ensemble_predict on its own
\* The DataFrame with a prediction column for every name f defines, and a
\* score column for every name g defines, in the order of NameOrder.
RECURSIVE FrameOf(_, _, _)
FrameOf(order, f, g) ==
    IF order = << >> THEN EmptyFrame
    ELSE LET n == Head(order)
             rest == FrameOf(Tail(order), f, g)
             cs == (IF f[n] = << >> THEN << >>
                    ELSE <<[key |-> PredKey(n), vals |-> f[n]]>>)
                   \o (IF g[n] = << >> THEN << >>
                       ELSE <<[key |-> ScoreKey(n), vals |-> g[n]]>>)
         IN  cs \o rest

NoScores == [n \in Names |-> << >>]

DetectIdle ==
    /\ models = << >>
    /\ idx = 0
    /\ outcome = "none"
    /\ failed = {}
    /\ features = RangeTable
    /\ results_index = RangeIndex

InitVote ==
    /\ store = EmptyStore
    /\ log = {}
    /\ config \in {c \in Configs(WeightMaps(Names, WeightVals)) : c.enabled}
    /\ \E f \in [Names -> PredVecs \cup {<< >>}] :
          results = FrameOf(NameOrder, f, NoScores)
    /\ pc = "args"
    /\ DetectIdle
    /\ TrainIdle
    /\ AdapterIdle
    /\ FeatureFileIdle
    /\ AggregationsIdle
    /\ InputIdle
    /\ FeatureEngineerIdle

\* line 91: results['ensemble_prediction'] = self._ensemble_predict(results)
ApplyEnsemblePredict ==
    /\ pc = "args"
    /\ results' = SetCol(results, EnsemblePredKey, EnsemblePredict(results, config))
    /\ pc' = "predicted"
    /\ UNCHANGED <<store, log, config, models, idx, outcome, failed, features,
                   results_index, train_vars>>

NextVote == ApplyEnsemblePredict

SpecVote == InitVote /\ [][NextVote]_vars

\* --------------------------------------------- _ensemble_score on its own
AllNormal == [r \in Rows |-> 1]

\* per detector: no column, a prediction column only, or both columns
ColumnShapes ==
    {[pred |-> << >>, score |-> << >>], [pred |-> AllNormal, score |-> << >>]}
        \cup {[pred |-> AllNormal, score |-> v] : v \in ScoreVecs(ColumnScores)}

InitScore ==
    /\ store = EmptyStore
    /\ log = {}
    /\ config = [enabled |-> TRUE, method |-> "voting", weights |-> NoWeights]
    /\ \E h \in [Names -> ColumnShapes] :
          LET df == FrameOf(NameOrder, [n \in Names |-> h[n].pred],
                                       [n \in Names |-> h[n].score])
          IN  results = SetCol(df, EnsemblePredKey, EnsemblePredict(df, config))
    /\ pc = "predicted"
    /\ DetectIdle
    /\ TrainIdle
    /\ AdapterIdle
    /\ FeatureFileIdle
    /\ AggregationsIdle
    /\ InputIdle
    /\ FeatureEngineerIdle

\* line 92: results['ensemble_score'] = self._ensemble_score(results)
ApplyEnsembleScore ==
    /\ pc = "predicted"
    /\ results' = SetCol(results, EnsembleScoreKey, EnsembleScore(results))
    /\ pc' = "scored"
    /\ UNCHANGED <<store, log, config, models, idx, outcome, failed, features,
                   results_index, train_vars>>

NextScore == ApplyEnsembleScore

SpecScore == InitScore /\ [][NextScore]_vars


\* ------------------------------------------------------------ ModelTrainer
\* ModelTrainer.models, the name -> class registry
TrainerClasses == {"isolation_forest", "autoencoder", "one_class_svm", "lstm"}

BoundedSeqs(S, n) == UNION {[1 .. k -> S] : k \in 0 .. n}

InitTrain ==
    /\ store = EmptyStore
    /\ log = {}
    /\ config = [enabled |-> TRUE, method |-> "voting", weights |-> NoWeights]
    /\ pc = "init"
    /\ results = EmptyFrame
    /\ DetectIdle
    /\ t_mode \in {"train_model", "train_all_models", "run_full_pipeline"}
    /\ IF t_mode = "train_model"
       THEN model_name \in TrainNames /\ enabled_models = << >>
       ELSE model_name = "" /\ enabled_models \in BoundedSeqs(TrainNames, MaxEnabled)
    /\ t_pc = "start"
    /\ t_idx = 0
    /\ fitted = {}
    /\ trained_models = {}
    /\ t_outcome = "none"
    /\ attempted = << >>
    /\ saved = << >>
    /\ loaded = 0
    /\ FeatureEngineerIdle
    /\ AdapterIdle
    /\ FeatureFileIdle
    /\ AggregationsIdle
    /\ InputIdle

\* train_model, lines 53-72: "unknown" is the ValueError of line 54, raised
\* before the class is instantiated; otherwise fit is entered and f says
\* whether it completes ("ok") or raises ("raise")
TrainModelResult(name, f) ==
    IF name \notin TrainerClasses THEN "unknown" ELSE f

FittedAfter(fs, name) ==
    IF name \in TrainerClasses THEN fs \cup {name} ELSE fs

\* save_model as it would be if an existing file were never overwritten
SaveModelOnce(st, name, artifact) ==
    IF st[name] > 0 THEN st ELSE [st EXCEPT ![name] = artifact]

\* save_model, lines 82-86: joblib.dump to model_dir / "{name}.pkl"
SaveModel(st, name, artifact) == [st EXCEPT ![name] = artifact]

\* lines 122-123 (main.py 60-61): train_model then save_model.  f is how fit
\* ends and d how joblib.dump ends; a dump that raises is taken to leave the
\* store as it was.
TrainAndSave(name, f, d) ==
    LET res == TrainModelResult(name, f)
    IN  IF res = "unknown" THEN "unknown"
        ELSE IF res = "raise" THEN "fit_raised"
        ELSE IF d = "raise" THEN "save_raised"
        ELSE "ok"

Attempt(name, result) == [name |-> name, result |-> result]

CallOutcomes == {"ok", "raise"}

\* run_training_only, lines 86-93: train_model, save_model, evaluate_model;
\* nothing catches what train_model, save_model or evaluate_model raises
TrainOne ==
    /\ t_mode = "train_model"
    /\ t_pc = "start"
    /\ \E f \in CallOutcomes : \E d \in CallOutcomes : \E e \in CallOutcomes :
          LET res == TrainAndSave(model_name, f, d)
          IN  /\ fitted' = FittedAfter(fitted, model_name)
              /\ store' = IF res = "ok" THEN SaveModel(store, model_name, 1) ELSE store
              /\ t_outcome' = IF res = "ok" /\ e = "ok" THEN "returned" ELSE "raised"
              /\ attempted' = Append(attempted, Attempt(model_name, res))
    /\ t_pc' = "done"
    /\ UNCHANGED <<rest_vars, io_vars, log, detect_vars, t_mode, model_name, enabled_models, t_idx,
                   trained_models>>

\* train_all_models, lines 120-126: one iteration of the loop, as it would be
\* if the except clause left the loop
TrainAllIterationBreak ==
    /\ t_mode = "train_all_models"
    /\ t_pc \in {"start", "loop"}
    /\ t_idx < Len(enabled_models)
    /\ LET name == enabled_models[t_idx + 1]
       IN  \E f \in CallOutcomes : \E d \in CallOutcomes :
              LET res == TrainAndSave(name, f, d)
              IN  /\ fitted' = FittedAfter(fitted, name)
                  /\ attempted' = Append(attempted, Attempt(name, res))
                  /\ IF res = "ok"
                     THEN /\ store' = SaveModel(store, name, t_idx + 1)
                          /\ trained_models' = trained_models \cup {name}
                          /\ log' = log
                          /\ t_idx' = t_idx + 1
                     ELSE /\ store' = store
                          /\ trained_models' = trained_models
                          /\ log' = log \cup {<<"error", "failed_to_train", name>>}
                          /\ t_idx' = Len(enabled_models)
    /\ t_pc' = "loop"
    /\ UNCHANGED <<rest_vars, io_vars, detect_vars, t_mode, model_name, enabled_models, t_outcome>>

\* train_all_models, lines 120-126: one iteration of the loop
TrainAllIteration ==
    /\ t_mode = "train_all_models"
    /\ t_pc \in {"start", "loop"}
    /\ t_idx < Len(enabled_models)
    /\ LET name == enabled_models[t_idx + 1]
       IN  \E f \in CallOutcomes : \E d \in CallOutcomes :
              LET res == TrainAndSave(name, f, d)
              IN  /\ fitted' = FittedAfter(fitted, name)
                  /\ attempted' = Append(attempted, Attempt(name, res))
                  /\ IF res = "ok"
                     THEN /\ store' = SaveModel(store, name, t_idx + 1)
                          /\ trained_models' = trained_models \cup {name}
                          /\ log' = log
                     ELSE /\ store' = store
                          /\ trained_models' = trained_models
                          /\ log' = log \cup {<<"error", "failed_to_train", name>>}
    /\ t_idx' = t_idx + 1
    /\ t_pc' = "loop"
    /\ UNCHANGED <<rest_vars, io_vars, detect_vars, t_mode, model_name, enabled_models, t_outcome>>

\* train_all_models, line 128: return trained_models
TrainAllReturn ==
    /\ t_mode = "train_all_models"
    /\ t_pc \in {"start", "loop"}
    /\ t_idx = Len(enabled_models)
    /\ t_pc' = "done"
    /\ t_outcome' = "returned"
    /\ UNCHANGED <<rest_vars, io_vars, store, log, detect_vars, t_mode, model_name, enabled_models,
                   t_idx, fitted, trained_models, attempted>>

\* run_full_pipeline, lines 58-65: one iteration, as it would be if the
\* artifact were written whether or not training succeeded
FullPipelineIterationSaveAlways ==
    /\ t_mode = "run_full_pipeline"
    /\ t_pc \in {"start", "loop"}
    /\ t_idx < Len(enabled_models)
    /\ LET name == enabled_models[t_idx + 1]
       IN  \E f \in CallOutcomes : \E d \in CallOutcomes : \E e \in CallOutcomes :
              LET res == TrainAndSave(name, f, d)
              IN  /\ fitted' = FittedAfter(fitted, name)
                  /\ attempted' = Append(attempted, Attempt(name, res))
                  /\ store' = SaveModel(store, name, t_idx + 1)
                  /\ IF res = "ok" /\ e = "ok"
                     THEN t_pc' = "loop" /\ t_outcome' = t_outcome
                     ELSE t_pc' = "done" /\ t_outcome' = "raised"
    /\ t_idx' = t_idx + 1
    /\ UNCHANGED <<rest_vars, io_vars, log, detect_vars, t_mode, model_name, enabled_models,
                   trained_models>>

\* run_full_pipeline, lines 58-65: one iteration; nothing catches what
\* train_model, save_model or evaluate_model (through model.predict) raises
FullPipelineIteration ==
    /\ t_mode = "run_full_pipeline"
    /\ t_pc \in {"start", "loop"}
    /\ t_idx < Len(enabled_models)
    /\ LET name == enabled_models[t_idx + 1]
       IN  \E f \in CallOutcomes : \E d \in CallOutcomes : \E e \in CallOutcomes :
              LET res == TrainAndSave(name, f, d)
              IN  /\ fitted' = FittedAfter(fitted, name)
                  /\ attempted' = Append(attempted, Attempt(name, res))
                  /\ store' = IF res = "ok"
                              THEN SaveModel(store, name, t_idx + 1) ELSE store
                  /\ IF res = "ok" /\ e = "ok"
                     THEN t_pc' = "loop" /\ t_outcome' = t_outcome
                     ELSE t_pc' = "done" /\ t_outcome' = "raised"
    /\ t_idx' = t_idx + 1
    /\ UNCHANGED <<rest_vars, io_vars, log, detect_vars, t_mode, model_name, enabled_models,
                   trained_models>>

\* run_full_pipeline, lines 67-74: the loop is over
FullPipelineReturn ==
    /\ t_mode = "run_full_pipeline"
    /\ t_pc \in {"start", "loop"}
    /\ t_idx = Len(enabled_models)
    /\ t_pc' = "done"
    /\ t_outcome' = "returned"
    /\ UNCHANGED <<rest_vars, io_vars, store, log, detect_vars, t_mode, model_name, enabled_models,
                   t_idx, fitted, trained_models, attempted>>

NextTrain ==
    \/ TrainOne
    \/ TrainAllIteration
    \/ TrainAllReturn
    \/ FullPipelineIteration
    \/ FullPipelineReturn

SpecTrain == InitTrain /\ [][NextTrain]_vars


\* --------------------------------------------- save_model and load_model
MaxSaves == 3

\* the detector objects a caller may hand to save_model
DetectorIds == 1 .. 2

InitStore ==
    /\ store = EmptyStore
    /\ log = {}
    /\ config = [enabled |-> TRUE, method |-> "voting", weights |-> NoWeights]
    /\ pc = "init"
    /\ results = EmptyFrame
    /\ DetectIdle
    /\ t_mode = "store"
    /\ model_name = ""
    /\ enabled_models = << >>
    /\ t_pc = "start"
    /\ t_idx = 0
    /\ fitted = {}
    /\ trained_models = {}
    /\ t_outcome = "none"
    /\ attempted = << >>
    /\ saved = << >>
    /\ loaded = 0
    /\ FeatureEngineerIdle
    /\ AdapterIdle
    /\ FeatureFileIdle
    /\ AggregationsIdle
    /\ InputIdle

\* save_model(model, model_name), lines 82-86
SaveModelCall ==
    /\ t_mode = "store"
    /\ Len(saved) < MaxSaves
    /\ \E name \in ArtifactNames : \E model \in DetectorIds :
          /\ store' = SaveModel(store, name, model)
          /\ saved' = Append(saved, [name |-> name, artifact |-> model])
          /\ model_name' = name
    /\ t_pc' = "saved"
    /\ t_outcome' = "returned"
    /\ log' = log \cup {<<"info", "saving", "">>, <<"success", "saved", "">>}
    /\ UNCHANGED <<rest_vars, detect_vars, t_mode, enabled_models, t_idx, fitted,
                   trained_models, attempted, loaded>>

\* load_model, lines 98-105: FileNotFoundError when {name}.pkl does not
\* exist, else what joblib.load reads from it
LoadModelResult(st, name) ==
    IF st[name] = 0 THEN [how |-> "not_found", model |-> 0]
    ELSE [how |-> "ok", model |-> st[name]]

LoadModelCall ==
    /\ t_mode = "store"
    /\ \E name \in ArtifactNames :
          LET res == LoadModelResult(store, name)
          IN  /\ model_name' = name
              /\ loaded' = res.model
              /\ t_outcome' = IF res.how = "ok" THEN "returned" ELSE "raised"
              /\ log' = IF res.how = "ok"
                        THEN log \cup {<<"info", "loading_model", "">>} ELSE log
    /\ t_pc' = "loaded"
    /\ UNCHANGED <<rest_vars, store, detect_vars, t_mode, enabled_models, t_idx, fitted,
                   trained_models, attempted, saved>>

NextStore == SaveModelCall \/ LoadModelCall

SpecStore == InitStore /\ [][NextStore]_vars


\* --------------------------------------------- FeatureEngineer.transform
\* a cell of a DataFrame column: a number, NaN, +inf, -inf, or text
Cell(kind, v) == [kind |-> kind, v |-> v]
NaN == Cell("nan", 0)
FeatureNums == {-1, 0, 2}
NumericCells == {NaN, Cell("inf", 0), Cell("ninf", 0)}
                    \cup {Cell("num", v) : v \in FeatureNums}
TextColumn == [name |-> "label", numeric |-> FALSE,
               vals |-> [r \in Rows |-> Cell("str", 0)]]
NumericColumns(name) ==
    {[name |-> name, numeric |-> TRUE, vals |-> v] : v \in [Rows -> NumericCells]}

\* the frames that reach line 79: one or two columns
CombinedFrames ==
    LET first == NumericColumns("f1") \cup {TextColumn}
        second == NumericColumns("f2")
    IN  {<<c>> : c \in first} \cup {<<c, d>> : c \in first, d \in second}

\* _handle_missing_features, lines 122-126: fillna(0) on the numeric columns,
\* then +inf and -inf replaced by 0
HandleMissingCell(c) ==
    IF c.kind \in {"nan", "inf", "ninf"} THEN Cell("num", 0) ELSE c

HandleMissingFeatures(df) ==
    [i \in 1 .. Len(df) |->
        IF df[i].numeric
        THEN [df[i] EXCEPT !.vals = [r \in Rows |-> HandleMissingCell(df[i].vals[r])]]
        ELSE df[i]]

\* features[col].min() and .max() of a column without missing values
FeatureMin(vals) ==
    CHOOSE m \in {vals[r].v : r \in Rows} : \A r \in Rows : m <= vals[r].v
FeatureMax(vals) ==
    CHOOSE m \in {vals[r].v : r \in Rows} : \A r \in Rows : m >= vals[r].v

\* lines 137-143 as they would be if min_val were not subtracted
NormalizeColumnUnshifted(vals) ==
    LET min_val == FeatureMin(vals)
        max_val == FeatureMax(vals)
    IN  IF max_val > min_val
        THEN [r \in Rows |-> Cell("num", Frac(vals[r].v, max_val - min_val))]
        ELSE [r \in Rows |-> Cell("num", Frac(0, 1))]

\* lines 137-143: one numeric column
NormalizeColumn(vals) ==
    LET min_val == FeatureMin(vals)
        max_val == FeatureMax(vals)
    IN  IF max_val > min_val
        THEN [r \in Rows |-> Cell("num", Frac(vals[r].v - min_val, max_val - min_val))]
        ELSE [r \in Rows |-> Cell("num", Frac(0, 1))]

\* _normalize_features, lines 134-145
NormalizeFeatures(df) ==
    [i \in 1 .. Len(df) |->
        IF df[i].numeric
        THEN [df[i] EXCEPT !.vals = NormalizeColumn(df[i].vals)]
        ELSE df[i]]

InitTransform ==
    /\ store = EmptyStore
    /\ log = {}
    /\ config = [enabled |-> TRUE, method |-> "voting", weights |-> NoWeights]
    /\ pc = "init"
    /\ results = EmptyFrame
    /\ DetectIdle
    /\ TrainIdle
    /\ AdapterIdle
    /\ FeatureFileIdle
    /\ AggregationsIdle
    /\ InputIdle
    /\ fe_pc = "combined"
    /\ combined \in CombinedFrames
    /\ transformed = << >>
    /\ ExtractorsIdle

\* transform, lines 78-85
TransformFinish ==
    /\ fe_pc = "combined"
    /\ transformed' = NormalizeFeatures(HandleMissingFeatures(combined))
    /\ fe_pc' = "transformed"
    /\ log' = log \cup {<<"info", "normalizing", "">>, <<"info", "complete", "">>}
    /\ UNCHANGED <<store, detect_vars, t_mode, model_name, enabled_models, t_pc,
                   t_idx, fitted, trained_models, t_outcome, attempted, io_vars,
                   combined, columns, fe_config, extracted, session_vars,
                   adapter_vars, ext_vars>>

NextTransform == TransformFinish

SpecTransform == InitTransform /\ [][NextTransform]_vars


\* ------------------------------------------- the extractors, by column
\* Which columns the three extractors emit for an event table, as a function
\* of the columns the table has.  A column is "zeros" or "ones" when the code
\* returns that constant without reading data, "computed" otherwise.
InputColumns == {"timestamp", "session_id", "user_id", "action", "resource",
                 "status_code", "bytes_transferred", "source_ip",
                 "destination_ip"}

BehavioralNames == <<"failed_login_count", "privilege_escalation_attempts",
                     "unique_resources_accessed", "session_duration",
                     "action_frequency">>
NetworkNames == <<"bytes_transferred", "connection_count", "unique_destinations",
                  "port_scan_indicators", "lateral_movement_score">>
TemporalNames == <<"hour_of_day", "day_of_week", "is_business_hours",
                   "time_since_last_action", "action_velocity">>

Range(seq) == {seq[i] : i \in 1 .. Len(seq)}
AllFeatures == Range(BehavioralNames) \cup Range(NetworkNames) \cup Range(TemporalNames)

FeatureConfigs ==
    {{f} : f \in AllFeatures}
        \cup {{}, Range(BehavioralNames), Range(NetworkNames),
              Range(TemporalNames), AllFeatures}

Col(name, fill) == [name |-> name, fill |-> fill]

\* behavioral_features.py: the guard at the head of each feature method
BehavioralFill(f, cols) ==
    CASE f = "failed_login_count" ->
            IF "action" \notin cols \/ "status_code" \notin cols
            THEN "zeros" ELSE "computed"
      [] f = "privilege_escalation_attempts" ->
            IF "action" \notin cols THEN "zeros" ELSE "computed"
      [] f = "unique_resources_accessed" ->
            IF "resource" \notin cols \/ "session_id" \notin cols
            THEN "zeros" ELSE "computed"
      [] f = "session_duration" ->
            IF "timestamp" \notin cols \/ "session_id" \notin cols
            THEN "zeros" ELSE "computed"
      [] f = "action_frequency" ->
            IF "session_id" \notin cols THEN "zeros" ELSE "computed"

\* network_features.py: the guards of the feature methods
NetworkFill(f, cols) ==
    CASE f = "bytes_transferred" ->
            IF "bytes_transferred" \in cols THEN "computed" ELSE "zeros"
      [] f = "connection_count" ->
            IF "session_id" \notin cols THEN "ones" ELSE "computed"
      [] f = "unique_destinations" ->
            IF "session_id" \notin cols THEN "ones"
            ELSE IF "destination_ip" \in cols \/ "resource" \in cols
                 THEN "computed" ELSE "ones"
      [] f = "port_scan_indicators" ->
            IF "session_id" \notin cols THEN "zeros"
            ELSE IF cols \cap {"destination_ip", "timestamp", "status_code"} = {}
                 THEN "zeros" ELSE "computed"
      [] f = "lateral_movement_score" ->
            IF "session_id" \notin cols THEN "zeros"
            ELSE IF /\ cols \cap {"resource", "action"} = {}
                    /\ ~({"source_ip", "user_id"} \subseteq cols)
                 THEN "zeros" ELSE "computed"

\* temporal_features.py: _action_velocity guards on session_id; the other
\* features read the timestamp
TemporalFill(f, cols) ==
    IF f = "action_velocity" /\ "session_id" \notin cols
    THEN "zeros" ELSE "computed"

\* the columns one enabled feature adds
FeatureOutputs(f) ==
    CASE f = "bytes_transferred" -> <<"bytes_transferred", "bytes_transferred_log">>
      [] f = "port_scan_indicators" -> <<"port_scan_score">>
      [] f = "hour_of_day" -> <<"hour_of_day", "hour_sin", "hour_cos">>
      [] f = "day_of_week" -> <<"day_of_week", "day_sin", "day_cos">>
      [] OTHER -> <<f>>

RECURSIVE Emit(_, _, _)
Emit(names, enabled, fill) ==
    IF names = << >> THEN << >>
    ELSE LET f == Head(names)
             outs == FeatureOutputs(f)
         IN  (IF f \in enabled
              THEN [i \in 1 .. Len(outs) |-> Col(outs[i], fill[f])]
              ELSE << >>) \o Emit(Tail(names), enabled, fill)

\* BehavioralFeatures.extract, lines 37-59
BehavioralExtract(cols, enabled) ==
    LET fill == [f \in Range(BehavioralNames) |-> BehavioralFill(f, cols)]
    IN  Emit(BehavioralNames, enabled, fill)

\* NetworkFeatures.extract, lines 36-59
NetworkExtract(cols, enabled) ==
    LET fill == [f \in Range(NetworkNames) |-> NetworkFill(f, cols)]
    IN  Emit(NetworkNames, enabled, fill)

\* TemporalFeatures.extract, lines 36-70: without a timestamp column the
\* empty frame is returned
TemporalExtract(cols, enabled) ==
    LET fill == [f \in Range(TemporalNames) |-> TemporalFill(f, cols)]
    IN  IF "timestamp" \notin cols THEN << >>
        ELSE Emit(TemporalNames, enabled, fill)

InitExtract ==
    /\ store = EmptyStore
    /\ log = {}
    /\ config = [enabled |-> TRUE, method |-> "voting", weights |-> NoWeights]
    /\ pc = "init"
    /\ results = EmptyFrame
    /\ DetectIdle
    /\ TrainIdle
    /\ AdapterIdle
    /\ FeatureFileIdle
    /\ AggregationsIdle
    /\ InputIdle
    /\ fe_pc = "start"
    /\ combined = << >>
    /\ transformed = << >>
    /\ columns \in SUBSET InputColumns
    /\ fe_config \in FeatureConfigs
    /\ extracted = << >>
    /\ events = << >>
    /\ session_out = NoSessionFeatures

\* transform, lines 50-70: the three extractors and pd.concat(axis=1)
ExtractFeatures ==
    /\ fe_pc = "start"
    /\ extracted' = BehavioralExtract(columns, fe_config)
                        \o NetworkExtract(columns, fe_config)
                        \o TemporalExtract(columns, fe_config)
    /\ fe_pc' = "extracted"
    /\ log' = log \cup {<<"info", "extracting", "">>}
                  \cup (IF "timestamp" \notin columns
                        THEN {<<"warning", "no_timestamp", "">>} ELSE {})
    /\ UNCHANGED <<store, detect_vars, t_mode, model_name, enabled_models, t_pc,
                   t_idx, fitted, trained_models, t_outcome, attempted, io_vars,
                   combined, transformed, columns, fe_config, session_vars,
                   adapter_vars, ext_vars>>

NextExtract == ExtractFeatures

SpecExtract == InitExtract /\ [][NextExtract]_vars


\* ------------------------------------------ the session features, by value
SessionIds == 1 .. 2
\* timestamps, in seconds
Times == {0, 30, 90}
SecondsPerMinute == 60

EventTables == [Rows -> [session_id : SessionIds, timestamp : Times]]

SameSession(ev, r) == {q \in Rows : ev[q].session_id = ev[r].session_id}

\* df.groupby('session_id')['session_id'].transform('count')
ActionCount(ev) == [r \in Rows |-> Cardinality(SameSession(ev, r))]

\* groupby('session_id')['timestamp'].transform('min') and ('max')
SessionStart(ev) ==
    [r \in Rows |-> CHOOSE t \in {ev[q].timestamp : q \in SameSession(ev, r)} :
                        \A q \in SameSession(ev, r) : t <= ev[q].timestamp]
SessionEnd(ev) ==
    [r \in Rows |-> CHOOSE t \in {ev[q].timestamp : q \in SameSession(ev, r)} :
                        \A q \in SameSession(ev, r) : t >= ev[q].timestamp]

\* BehavioralFeatures._session_duration, lines 107-119, in seconds
SessionDuration(cols, ev) ==
    IF "timestamp" \notin cols \/ "session_id" \notin cols
    THEN [r \in Rows |-> 0]
    ELSE [r \in Rows |-> SessionEnd(ev)[r] - SessionStart(ev)[r]]

\* a Series divided by a Series, element by element: x / 0 is inf for
\* x > 0 and NaN for x = 0, never an exception
Quotient(x, d) ==
    IF d.num = 0 THEN (IF x = 0 THEN NaN ELSE Cell("inf", 0))
    ELSE Cell("num", Frac(x * d.den, d.num))

\* .replace(0, 1) as it would be if it replaced nothing
ReplaceZeroKept(d) == d

\* duration.replace(0, 1)
ReplaceZero(d) == IF d.num = 0 THEN Frac(1, 1) ELSE d

\* BehavioralFeatures._action_frequency, lines 123-134
ActionFrequency(cols, ev) ==
    IF "session_id" \notin cols THEN [r \in Rows |-> Cell("num", Frac(0, 1))]
    ELSE LET action_count == ActionCount(ev)
             seconds == SessionDuration(cols, ev)
             duration == [r \in Rows |-> ReplaceZero(Frac(seconds[r], SecondsPerMinute))]
         IN  [r \in Rows |-> Quotient(action_count[r], duration[r])]

\* an action velocity whose duration is clamped from below at one minute
ActionVelocityClamped(cols, ev) ==
    IF "session_id" \notin cols THEN [r \in Rows |-> Cell("num", Frac(0, 1))]
    ELSE LET action_count == ActionCount(ev)
             seconds == [r \in Rows |-> SessionEnd(ev)[r] - SessionStart(ev)[r]]
             duration_minutes ==
                 [r \in Rows |->
                     IF seconds[r] < SecondsPerMinute THEN Frac(1, 1)
                     ELSE Frac(seconds[r], SecondsPerMinute)]
         IN  [r \in Rows |-> Quotient(action_count[r], duration_minutes[r])]

\* TemporalFeatures._action_velocity, lines 108-121
ActionVelocity(cols, ev) ==
    IF "session_id" \notin cols THEN [r \in Rows |-> Cell("num", Frac(0, 1))]
    ELSE LET action_count == ActionCount(ev)
             duration_minutes ==
                 [r \in Rows |->
                     ReplaceZero(Frac(SessionEnd(ev)[r] - SessionStart(ev)[r],
                                      SecondsPerMinute))]
         IN  [r \in Rows |-> Quotient(action_count[r], duration_minutes[r])]

InitSession ==
    /\ store = EmptyStore
    /\ log = {}
    /\ config = [enabled |-> TRUE, method |-> "voting", weights |-> NoWeights]
    /\ pc = "init"
    /\ results = EmptyFrame
    /\ DetectIdle
    /\ TrainIdle
    /\ AdapterIdle
    /\ FeatureFileIdle
    /\ AggregationsIdle
    /\ InputIdle
    /\ fe_pc = "start"
    /\ combined = << >>
    /\ transformed = << >>
    /\ columns \in SUBSET {"timestamp", "session_id"}
    /\ fe_config = {"session_duration", "action_frequency", "action_velocity"}
    /\ extracted = << >>
    /\ events \in EventTables
    /\ session_out = NoSessionFeatures

\* BehavioralFeatures.extract (lines 52-57) and TemporalFeatures.extract
\* (lines 38-40, 67-68) with the three session features enabled
ExtractSessionFeatures ==
    /\ fe_pc = "start"
    /\ events # << >>
    /\ session_out' =
          [session_duration |-> SessionDuration(columns, events),
           action_frequency |-> ActionFrequency(columns, events),
           action_velocity |-> IF "timestamp" \notin columns THEN << >>
                               ELSE ActionVelocity(columns, events)]
    /\ fe_pc' = "session_extracted"
    /\ log' = IF "timestamp" \notin columns
              THEN log \cup {<<"warning", "no_timestamp", "">>} ELSE log
    /\ UNCHANGED <<store, detect_vars, t_mode, model_name, enabled_models, t_pc,
                   t_idx, fitted, trained_models, t_outcome, attempted, io_vars,
                   combined, transformed, columns, fe_config, extracted, events,
                   adapter_vars, ext_vars>>

NextSession == ExtractSessionFeatures

SpecSession == InitSession /\ [][NextSession]_vars

\* ------------------------------------- the autoencoder and LSTM adapters
MaxBatch == 3

SequenceLengths == 1 .. 2
ErrorVals == 0 .. 2
ThresholdVals == 0 .. 2

\* a batch of n rows, 0 <= n <= MaxBatch; row i stands as the error the
\* network yields for it (for the LSTM: for the window that ends before it)
Batches == BoundedSeqs(ErrorVals, MaxBatch)

Ok(vals) == [how |-> "ok", vals |-> vals]
Raise == [how |-> "raise", vals |-> << >>]

\* np.where(scores > threshold, -1, 1)
WhereAbove(scores, threshold) ==
    [i \in 1 .. Len(scores) |-> IF scores[i] > threshold THEN -1 ELSE 1]

\* AutoencoderDetector.score_samples, lines 135-137
AutoencoderScoreSamples(X) == X

\* the threshold predict compares with, as it would be if it were taken from
\* the batch at hand
DecisionThresholdOfBatch(threshold, scores) ==
    IF scores = << >> THEN threshold
    ELSE CHOOSE m \in {scores[i] : i \in 1 .. Len(scores)} :
            \A i \in 1 .. Len(scores) : m >= scores[i]

\* the threshold predict compares with: self.threshold_value, read only
\* (autoencoder.py:122, lstm_detector.py:134)
DecisionThreshold(threshold, scores) == threshold

\* AutoencoderDetector.predict, lines 121-123
AutoencoderPredict(threshold, X) ==
    LET scores == AutoencoderScoreSamples(X)
    IN  Ok(WhereAbove(scores, DecisionThreshold(threshold, scores)))

\* LSTMDetector._create_sequences, lines 45-49: the number of sequences
NumSequences(k, X) == IF Len(X) > k THEN Len(X) - k ELSE 0

\* LSTMDetector.score_samples, lines 149-157
LSTMScoreSamples(k, X) ==
    IF NumSequences(k, X) = 0 THEN [i \in 1 .. Len(X) |-> 0]
    ELSE [i \in 1 .. NumSequences(k, X) |-> X[k + i]]

\* predictions[k:] = values, lines 132-135: numpy accepts values of the
\* length of the slice, or of length 1 (broadcast), and raises ValueError
\* for any other length
SliceAssign(n, k, values) ==
    LET slots == IF n > k THEN n - k ELSE 0
    IN  IF Len(values) = slots
        THEN Ok([i \in 1 .. n |-> IF i <= k THEN 1 ELSE values[i - k]])
        ELSE IF Len(values) = 1
        THEN Ok([i \in 1 .. n |-> IF i <= k THEN 1 ELSE values[1]])
        ELSE Raise

\* LSTMDetector.predict, lines 129-137
LSTMPredict(k, threshold, X) ==
    LET scores == LSTMScoreSamples(k, X)
    IN  SliceAssign(Len(X), k, WhereAbove(scores, DecisionThreshold(threshold, scores)))

AdapterPredict(kind, k, threshold, X) ==
    IF kind = "lstm" THEN LSTMPredict(k, threshold, X)
    ELSE AutoencoderPredict(threshold, X)

AdapterScoreSamples(kind, k, X) ==
    IF kind = "lstm" THEN LSTMScoreSamples(k, X) ELSE AutoencoderScoreSamples(X)

InitAdapter ==
    /\ store = EmptyStore
    /\ log = {}
    /\ config = [enabled |-> TRUE, method |-> "voting", weights |-> NoWeights]
    /\ pc = "init"
    /\ results = EmptyFrame
    /\ DetectIdle
    /\ t_mode = "none" /\ model_name = "" /\ enabled_models = << >>
    /\ t_pc = "idle" /\ t_idx = 0 /\ fitted = {} /\ trained_models = {}
    /\ t_outcome = "none" /\ attempted = << >> /\ saved = << >> /\ loaded = 0
    /\ FeatureEngineerIdle
    /\ FeatureFileIdle
    /\ AggregationsIdle
    /\ InputIdle
    /\ \/ a_kind = "autoencoder" /\ sequence_length = 0
       \/ a_kind = "lstm" /\ sequence_length \in SequenceLengths
    /\ threshold_value = -1
    /\ fit_threshold = -1
    /\ a_pc = "constructed"
    /\ a_batch = << >>
    /\ a_result = NoResult

AdapterFrame ==
    UNCHANGED <<store, detect_vars, t_mode, model_name, enabled_models, t_pc,
                t_idx, fitted, trained_models, t_outcome, attempted, io_vars,
                fe_vars, ext_vars, a_kind, sequence_length>>

\* fit (autoencoder.py:102-107, lstm_detector.py:110-115): the threshold is a
\* percentile of the errors the trained network yields on the training data
AdapterFit ==
    /\ a_pc # "idle"
    /\ \E percentile \in ThresholdVals :
          /\ threshold_value' = percentile
          /\ fit_threshold' = percentile
    /\ a_pc' = "fit"
    /\ a_result' = NoResult
    /\ a_batch' = << >>
    /\ log' = log \cup {<<"info", "training", a_kind>>}
    /\ AdapterFrame

\* predict on a fitted adapter
AdapterPredictCall ==
    /\ a_pc \in {"fit", "predict", "score_samples"}
    /\ \E X \in Batches :
          /\ a_batch' = X
          /\ a_result' = AdapterPredict(a_kind, sequence_length, threshold_value, X)
    /\ a_pc' = "predict"
    /\ UNCHANGED <<log, threshold_value, fit_threshold>>
    /\ AdapterFrame

\* score_samples on a fitted adapter
AdapterScoreCall ==
    /\ a_pc \in {"fit", "predict", "score_samples"}
    /\ \E X \in Batches :
          /\ a_batch' = X
          /\ a_result' = Ok(AdapterScoreSamples(a_kind, sequence_length, X))
    /\ a_pc' = "score_samples"
    /\ UNCHANGED <<log, threshold_value, fit_threshold>>
    /\ AdapterFrame

NextAdapter == AdapterFit \/ AdapterPredictCall \/ AdapterScoreCall

SpecAdapter == InitAdapter /\ [][NextAdapter]_vars


\* ------------------------- FeatureEngineer.save_features / load_features
\* the suffixes a feature file path may carry
Suffixes == {".parquet", ".csv", ".json", ""}

\* a feature matrix: an index and one or two numeric columns, float64 columns
\* holding numbers of [0, 1] or NaN, int64 columns holding 0 or 1
\* (NaN among cells that hold rationals)
MissingCell == Cell("nan", Frac(0, 1))
FloatCells == {MissingCell} \cup {Cell("num", Frac(n, 2)) : n \in 0 .. 2}
IntCells == {Cell("num", Frac(n, 1)) : n \in 0 .. 1}
MatrixColumns(name) ==
    {[name |-> name, dtype |-> "float64", vals |-> v] : v \in [Rows -> FloatCells]}
        \cup {[name |-> name, dtype |-> "int64", vals |-> v] : v \in [Rows -> IntCells]}
Matrices ==
    LET cols == {<<c>> : c \in MatrixColumns("f1")}
                    \cup {<<c, d>> : c \in MatrixColumns("f1"),
                                     d \in {x \in MatrixColumns("f2") :
                                                x.dtype = "float64"}}
    IN  [index : {RangeIndex, LabelIndex}, cols : cols]

\* a field of a CSV line: the text of an integer, of a float, or nothing
Field(lex, v) == [lex |-> lex, v |-> v]

\* how to_csv writes a cell: NaN as the empty string, an int64 as its digits,
\* a float64 with its decimal point
FormatCell(dtype, c) ==
    IF c.kind = "nan" THEN Field("empty", Frac(0, 1))
    ELSE IF dtype = "int64" THEN Field("int", c.v)
    ELSE Field("float", c.v)

\* to_csv(path) with the default index=True: the index is written as a first,
\* unnamed column
ToCsvIndexed(df) ==
    [format |-> "csv",
     header |-> <<"">> \o [i \in 1 .. Len(df.cols) |-> df.cols[i].name],
     lines |-> [r \in Rows |->
                   <<Field("int", Frac(df.index[r], 1))>>
                       \o [i \in 1 .. Len(df.cols) |->
                              FormatCell(df.cols[i].dtype, df.cols[i].vals[r])]]]

\* to_csv(path, index=False), line 163: a header line of the column names and
\* one line of fields per row; the index is not written
ToCsv(df) ==
    [format |-> "csv",
     header |-> [i \in 1 .. Len(df.cols) |-> df.cols[i].name],
     lines |-> [r \in Rows |->
                   [i \in 1 .. Len(df.cols) |->
                       FormatCell(df.cols[i].dtype, df.cols[i].vals[r])]]]

\* how read_csv reads a field back: the empty string is NaN
ParseField(f) == IF f.lex = "empty" THEN MissingCell ELSE Cell("num", f.v)

\* read_csv(path), line 185: the header names the columns (an unnamed one is
\* called "Unnamed: 0"), a column whose fields are all integers is int64 and
\* any other is float64, and the index is the default one
ReadCsv(file) ==
    [index |-> RangeIndex,
     cols |-> [i \in 1 .. Len(file.header) |->
                 [name |-> IF file.header[i] = "" THEN "Unnamed: 0"
                           ELSE file.header[i],
                  dtype |-> IF \A r \in Rows : file.lines[r][i].lex = "int"
                            THEN "int64" ELSE "float64",
                  vals |-> [r \in Rows |-> ParseField(file.lines[r][i])]]]]

\* to_parquet(path, index=False), line 161: a schema of named, typed columns
\* and the values of each; the index is not written
ToParquet(df) ==
    [format |-> "parquet",
     schema |-> [i \in 1 .. Len(df.cols) |->
                   [name |-> df.cols[i].name, dtype |-> df.cols[i].dtype]],
     data |-> [i \in 1 .. Len(df.cols) |-> df.cols[i].vals]]

\* read_parquet(path), line 183
ReadParquet(file) ==
    [index |-> RangeIndex,
     cols |-> [i \in 1 .. Len(file.schema) |->
                 [name |-> file.schema[i].name, dtype |-> file.schema[i].dtype,
                  vals |-> file.data[i]]]]

InitFeatureFile ==
    /\ store = EmptyStore
    /\ log = {}
    /\ config = [enabled |-> TRUE, method |-> "voting", weights |-> NoWeights]
    /\ pc = "init"
    /\ results = EmptyFrame
    /\ DetectIdle
    /\ TrainIdle
    /\ AdapterIdle
    /\ fe_pc = "features"
    /\ combined = << >>
    /\ transformed = << >>
    /\ ExtractorsIdle
    /\ matrix \in Matrices
    /\ suffix \in Suffixes
    /\ feature_file = NoFile
    /\ save_result = "none"
    /\ reloaded = NoResult
    /\ AggregationsIdle
    /\ InputIdle

FeatureFileFrame ==
    UNCHANGED <<store, detect_vars, t_mode, model_name, enabled_models, t_pc,
                t_idx, fitted, trained_models, t_outcome, attempted, io_vars,
                combined, transformed, columns, fe_config, extracted,
                session_vars, adapter_vars, matrix, suffix, aggregations,
                input_vars>>

\* save_features, lines 155-167
SaveFeatures ==
    /\ fe_pc = "features"
    /\ fe_pc' = "saved"
    /\ IF suffix = ".parquet"
       THEN /\ feature_file' = ToParquet(matrix)
            /\ save_result' = "ok"
       ELSE IF suffix = ".csv"
       THEN /\ feature_file' = ToCsv(matrix)
            /\ save_result' = "ok"
       ELSE /\ feature_file' = feature_file
            /\ save_result' = "raise"
    /\ log' = log \cup {<<"info", "saving_features", "">>}
                  \cup (IF suffix \in {".parquet", ".csv"}
                        THEN {<<"success", "saved_features", "">>} ELSE {})
    /\ reloaded' = reloaded
    /\ FeatureFileFrame

\* load_features on the same path, lines 179-191
LoadFeatures ==
    /\ fe_pc = "saved"
    /\ fe_pc' = "loaded"
    /\ reloaded' = IF suffix = ".parquet" THEN Ok(ReadParquet(feature_file))
                   ELSE IF suffix = ".csv" THEN Ok(ReadCsv(feature_file))
                   ELSE Raise
    /\ log' = log \cup {<<"info", "loading_features", "">>}
                  \cup (IF suffix \in {".parquet", ".csv"}
                        THEN {<<"info", "loaded_features", "">>} ELSE {})
    /\ UNCHANGED <<feature_file, save_result>>
    /\ FeatureFileFrame

NextFeatureFile == SaveFeatures \/ LoadFeatures

SpecFeatureFile == InitFeatureFile /\ [][NextFeatureFile]_vars

\* ------------------------- BehavioralFeatures._failed_login_count, by value
\* action strings: two that contain 'login' when case is ignored, one that
\* does not
LoginActions == {"login", "LOGIN_RETRY", "logout"}
StatusCodes == {200, 401, 403}

LoginTables ==
    [Rows -> [session_id : SessionIds, action : LoginActions,
              status_code : StatusCodes]]

\* df['action'].str.contains('login', case=False, na=False)
ContainsLogin(action) == action \in {"login", "LOGIN_RETRY"}

\* lines 66-69: the mask of the rows that are failed logins
FailedLogins(ev) ==
    [r \in Rows |-> ContainsLogin(ev[r].action) /\ ev[r].status_code \in {401, 403}]

\* _failed_login_count, lines 63-76: the group count is taken over the
\* failed rows only and reindexed to all rows with fill_value=0
FailedLoginCount(cols, ev) ==
    IF "action" \notin cols \/ "status_code" \notin cols
    THEN [r \in Rows |-> 0]
    ELSE LET failed_logins == FailedLogins(ev)
         IN  IF "session_id" \in cols
             THEN [r \in Rows |->
                     IF failed_logins[r]
                     THEN Cardinality({q \in SameSession(ev, r) : failed_logins[q]})
                     ELSE 0]
             ELSE [r \in Rows |-> IF failed_logins[r] THEN 1 ELSE 0]

InitLogin ==
    /\ store = EmptyStore
    /\ log = {}
    /\ config = [enabled |-> TRUE, method |-> "voting", weights |-> NoWeights]
    /\ pc = "init"
    /\ results = EmptyFrame
    /\ DetectIdle
    /\ TrainIdle
    /\ AdapterIdle
    /\ FeatureFileIdle
    /\ AggregationsIdle
    /\ InputIdle
    /\ fe_pc = "start"
    /\ combined = << >>
    /\ transformed = << >>
    /\ columns \in SUBSET {"session_id", "action", "status_code"}
    /\ fe_config = {"failed_login_count"}
    /\ extracted = << >>
    /\ events \in LoginTables
    /\ session_out = [failed_login_count |-> << >>]

\* BehavioralFeatures.extract, lines 40-41, with failed_login_count enabled
ExtractFailedLogins ==
    /\ fe_pc = "start"
    /\ session_out' = [failed_login_count |-> FailedLoginCount(columns, events)]
    /\ fe_pc' = "logins_counted"
    /\ UNCHANGED <<store, log, detect_vars, t_mode, model_name, enabled_models,
                   t_pc, t_idx, fitted, trained_models, t_outcome, attempted,
                   io_vars, combined, transformed, columns, fe_config,
                   extracted, events, adapter_vars, ext_vars>>

NextLogin == ExtractFailedLogins

SpecLogin == InitLogin /\ [][NextLogin]_vars

\* --------------------------------------- FeatureEngineer._add_aggregations
MaxAggregations == 2
\* the aggregation functions whose results are rational
AggregationNames == {"mean", "min", "max"}

\* config['aggregations']: lists of distinct function names
AggregationLists ==
    {s \in BoundedSeqs(AggregationNames, MaxAggregations) :
        \A i, j \in 1 .. Len(s) : i # j => s[i] # s[j]}

\* the concatenated extractor output: one or two numeric columns; a column
\* name is held as its parts, "f1_session_mean" as <<"f1", "mean">>
ExtractorValues == {Frac(0, 1), Frac(2, 1)}
ExtractorFrames ==
    LET col(n) == {[name |-> <<n>>, vals |-> v] : v \in [Rows -> ExtractorValues]}
    IN  {<<c>> : c \in col("f1")} \cup {<<c, d>> : c \in col("f1"), d \in col("f2")}

SessionTables == [Rows -> [session_id : SessionIds]]

FracLeq(p, q) == p.num * q.den <= q.num * p.den

RECURSIVE FracSum(_, _)
FracSum(vals, S) ==
    IF S = {} THEN Frac(0, 1)
    ELSE LET r == CHOOSE x \in S : TRUE
         IN  FracAdd(vals[r], FracSum(vals, S \ {r}))

\* groupby(df['session_id'])[col].mean(), .min() or .max() for the group S
Aggregate(agg, vals, S) ==
    IF agg = "mean" THEN FracDivInt(FracSum(vals, S), Cardinality(S))
    ELSE IF agg = "min"
    THEN CHOOSE v \in {vals[q] : q \in S} : \A q \in S : FracLeq(v, vals[q])
    ELSE CHOOSE v \in {vals[q] : q \in S} : \A q \in S : FracLeq(vals[q], v)

\* lines 99-112: the aggregate of every column of cols per session, renamed
\* with the suffix, and joined back on the session of each row (line 115)
AggFeatures(agg, cols, ev) ==
    [i \in 1 .. Len(cols) |->
        [name |-> Append(cols[i].name, agg),
         vals |-> [r \in Rows |-> Aggregate(agg, cols[i].vals, SameSession(ev, r))]]]

\* the loop of lines 95-115: numeric_cols is read from features on every
\* iteration (line 96), the columns joined by earlier iterations included
RECURSIVE AggregationLoop(_, _, _)
AggregationLoop(aggs, feats, ev) ==
    IF aggs = << >> THEN feats
    ELSE AggregationLoop(Tail(aggs), feats \o AggFeatures(Head(aggs), feats, ev), ev)

\* _add_aggregations, lines 87-117
AddAggregations(aggs, feats, cols, ev) ==
    IF "session_id" \in cols THEN AggregationLoop(aggs, feats, ev)
    ELSE feats

InitAggregate ==
    /\ store = EmptyStore
    /\ log = {}
    /\ config = [enabled |-> TRUE, method |-> "voting", weights |-> NoWeights]
    /\ pc = "init"
    /\ results = EmptyFrame
    /\ DetectIdle
    /\ TrainIdle
    /\ AdapterIdle
    /\ FeatureFileIdle
    /\ fe_pc = "concatenated"
    /\ combined \in ExtractorFrames
    /\ transformed = << >>
    /\ columns \in SUBSET {"session_id"}
    /\ fe_config = {}
    /\ extracted = << >>
    /\ events \in SessionTables
    /\ session_out = NoSessionFeatures
    /\ aggregations \in AggregationLists
    /\ InputIdle

\* transform, lines 69-70: features = self._add_aggregations(features, df)
ApplyAggregations ==
    /\ fe_pc = "concatenated"
    /\ transformed' = AddAggregations(aggregations, combined, columns, events)
    /\ fe_pc' = "aggregated"
    /\ log' = log \cup {<<"info", "aggregations", "">>}
    /\ UNCHANGED <<store, detect_vars, t_mode, model_name, enabled_models, t_pc,
                   t_idx, fitted, trained_models, t_outcome, attempted, io_vars,
                   combined, columns, fe_config, extracted, session_vars,
                   adapter_vars, file_vars, aggregations, input_vars>>

NextAggregate == ApplyAggregations

SpecAggregate == InitAggregate /\ [][NextAggregate]_vars

\* ------------------------- NetworkFeatures._port_scan_indicators, by value
\* The thresholds of the score (10 destinations, 20 connections per minute,
\* 5 failed connections) need more events than a table of NumRows rows holds,
\* so a row of the table stands for a run of `size` events of one session
\* that share their timestamp and status code and reach `dests` destination
\* addresses no other run reaches; the events of a run get the same score.
RunSizes == {1, 6, 21}
RunDestinations == {1, 11}
NetworkStatusCodes == {200, 404}
NetworkTimes == {0, 60}
NetworkColumns == {"session_id", "destination_ip", "timestamp", "status_code"}

NetworkTables ==
    [Rows -> {g \in [session_id : SessionIds, size : RunSizes,
                     dests : RunDestinations, status_code : NetworkStatusCodes,
                     timestamp : NetworkTimes] : g.dests <= g.size}]

RECURSIVE Total(_, _)
Total(f, S) ==
    IF S = {} THEN 0
    ELSE LET r == CHOOSE x \in S : TRUE IN f[r] + Total(f, S \ {r})

\* _connection_count, lines 72-73
ConnectionCount(ev) ==
    [r \in Rows |-> Total([q \in Rows |-> ev[q].size], SameSession(ev, r))]

\* groupby('session_id')['destination_ip'].transform('nunique'), line 101
UniqueDests(ev) ==
    [r \in Rows |-> Total([q \in Rows |-> ev[q].dests], SameSession(ev, r))]

\* _get_session_duration, lines 155-167, in seconds: 0 is replaced by 1
GetSessionDuration(ev) ==
    LET duration == [r \in Rows |-> SessionEnd(ev)[r] - SessionStart(ev)[r]]
    IN  [r \in Rows |-> IF duration[r] = 0 THEN 1 ELSE duration[r]]

\* lines 107-109: connection_count / (session_duration / 60.0 + 1) > 20
HighConnectionRate(ev) ==
    [r \in Rows |->
        ConnectionCount(ev)[r] * SecondsPerMinute
            > 20 * (GetSessionDuration(ev)[r] + SecondsPerMinute)]

\* line 114: df['status_code'].isin([403, 404, 500, 503])
FailedConnection(ev) == [r \in Rows |-> ev[r].status_code \in {403, 404, 500, 503}]

\* lines 115-116: the group count is taken over the failed events only and
\* reindexed to all events with fill_value=0
FailedCount(ev) ==
    LET failed_rows == FailedConnection(ev)
    IN  [r \in Rows |->
            IF failed_rows[r]
            THEN Total([q \in Rows |-> ev[q].size],
                       {q \in SameSession(ev, r) : failed_rows[q]})
            ELSE 0]

\* _port_scan_indicators, lines 90-119; the score is held in tenths
PortScanIndicators(cols, ev) ==
    IF "session_id" \notin cols THEN [r \in Rows |-> Frac(0, 10)]
    ELSE [r \in Rows |->
            Frac((IF "destination_ip" \in cols /\ UniqueDests(ev)[r] > 10
                  THEN 3 ELSE 0)
                 + (IF "timestamp" \in cols /\ HighConnectionRate(ev)[r]
                    THEN 3 ELSE 0)
                 + (IF "status_code" \in cols /\ FailedCount(ev)[r] > 5
                    THEN 4 ELSE 0), 10)]

InitNetwork ==
    /\ store = EmptyStore
    /\ log = {}
    /\ config = [enabled |-> TRUE, method |-> "voting", weights |-> NoWeights]
    /\ pc = "init"
    /\ results = EmptyFrame
    /\ DetectIdle
    /\ TrainIdle
    /\ AdapterIdle
    /\ FeatureFileIdle
    /\ AggregationsIdle
    /\ InputIdle
    /\ fe_pc = "start"
    /\ combined = << >>
    /\ transformed = << >>
    /\ columns \in {NetworkColumns} \cup {NetworkColumns \ {c} : c \in NetworkColumns}
    /\ fe_config = {"port_scan_indicators"}
    /\ extracted = << >>
    /\ events \in NetworkTables
    /\ session_out = [port_scan_score |-> << >>]

\* NetworkFeatures.extract, lines 52-53, with port_scan_indicators enabled
ExtractPortScanScore ==
    /\ fe_pc = "start"
    /\ session_out' = [port_scan_score |-> PortScanIndicators(columns, events)]
    /\ fe_pc' = "port_scan_scored"
    /\ UNCHANGED <<store, log, detect_vars, t_mode, model_name, enabled_models,
                   t_pc, t_idx, fitted, trained_models, t_outcome, attempted,
                   io_vars, combined, transformed, columns, fe_config,
                   extracted, events, adapter_vars, ext_vars>>

NextNetwork == ExtractPortScanScore

SpecNetwork == InitNetwork /\ [][NextNetwork]_vars

\* ------------------------------------ detect over a registry of one adapter
\* results[column] = values, detect.py:76 and 81: pandas raises ValueError
\* unless there is one value per row of the index
ColumnAssign(n, res) ==
    IF res.how = "ok" /\ Len(res.vals) = n THEN res ELSE Raise

\* detect, lines 64-100, for the registry {a_kind: the fitted adapter} and a
\* feature matrix of NumRows rows
DetectWithAdapter ==
    /\ a_pc \in {"fit", "detect"}
    /\ \E X \in [Rows -> ErrorVals] :
          LET predictions == AdapterPredict(a_kind, sequence_length, threshold_value, X)
              scores == Ok(AdapterScoreSamples(a_kind, sequence_length, X))
              p == ColumnAssign(NumRows, predictions)
              s == IF p.how = "raise" THEN NoResult
                   ELSE ColumnAssign(NumRows, scores)
              df == WithEnsemble(AfterModel(EmptyFrame, a_kind, p, s), config)
          IN  /\ a_batch' = X
              /\ a_result' = scores
              /\ results' = SetCol(df, IsAnomalyKey,
                               [r \in Rows |-> GetCol(df, EnsemblePredKey)[r] = -1])
              /\ failed' = (IF p.how = "raise" THEN {<<a_kind, "predict">>} ELSE {})
                               \cup (IF s.how = "raise" THEN {<<a_kind, "score">>} ELSE {})
              /\ log' = log \cup {<<"info", "running_detection", "">>,
                                  <<"info", "running", a_kind>>,
                                  <<"info", "detected", "">>}
                            \cup (IF ModelRaised(p, s)
                                  THEN {<<"error", "error_running", a_kind>>} ELSE {})
    /\ a_pc' = "detect"
    /\ outcome' = "returned"
    /\ UNCHANGED <<store, config, models, pc, idx, features, results_index,
                   t_mode, model_name, enabled_models, t_pc, t_idx, fitted,
                   trained_models, t_outcome, attempted, io_vars, fe_vars,
                   ext_vars, a_kind, sequence_length, threshold_value,
                   fit_threshold>>

NextAdapterDetect == AdapterFit \/ DetectWithAdapter

SpecAdapterDetect == InitAdapter /\ [][NextAdapterDetect]_vars

\* ----------------------------- load_models called again as the store changes
\* the model store as the detector finds it: per name no artifact (0) or
\* one of two artifacts
StoresOnDisk ==
    {st \in [ArtifactNames -> {0, 1, 2}] : Stored(st) \subseteq StoreNames}

InitRegistry ==
    /\ store \in StoresOnDisk
    /\ log = {}
    /\ DetectorConstructed({NoWeights})
    /\ features = RangeTable
    /\ TrainIdle
    /\ AdapterIdle
    /\ FeatureFileIdle
    /\ AggregationsIdle
    /\ InputIdle
    /\ FeatureEngineerIdle

\* another process writes, replaces or removes an artifact of the store
StoreChange ==
    /\ \E n \in StoreNames : \E v \in {0, 1, 2} :
          /\ v # store[n]
          /\ store' = [store EXCEPT ![n] = v]
    /\ pc' = IF pc = "init" THEN "init" ELSE "changed"
    /\ UNCHANGED <<log, config, models, idx, results, outcome, failed, features,
                   results_index, train_vars>>

\* load_models as it would be if it emptied the registry before the scan
LoadModelsCleared ==
    /\ \E files \in Perms(Stored(store)) : \E bad \in SUBSET Stored(store) :
          /\ models' = LoadEach(<< >>, files, bad, store)
          /\ failed' = {<<n, "load">> : n \in bad}
          /\ log' = log \cup {<<"info", "load_models", "">>}
                        \cup {<<"info", "loading", n>> : n \in Stored(store)}
                        \cup {<<"error", "failed_to_load", n>> : n \in bad}
                        \cup {<<"success", "loaded", "">>}
    /\ pc' = IF pc = "init" THEN "loaded" ELSE "reloaded"
    /\ UNCHANGED <<store, config, idx, results, outcome, features,
                   results_index, train_vars>>

\* load_models, lines 30-51, on a detector that may have loaded before; the
\* names whose joblib.load raised in this call are kept in failed
LoadModelsCall ==
    /\ \E files \in Perms(Stored(store)) : \E bad \in SUBSET Stored(store) :
          /\ models' = LoadEach(models, files, bad, store)
          /\ failed' = {<<n, "load">> : n \in bad}
          /\ log' = log \cup {<<"info", "load_models", "">>}
                        \cup {<<"info", "loading", n>> : n \in Stored(store)}
                        \cup {<<"error", "failed_to_load", n>> : n \in bad}
                        \cup {<<"success", "loaded", "">>}
    /\ pc' = IF pc = "init" THEN "loaded" ELSE "reloaded"
    /\ UNCHANGED <<store, config, idx, results, outcome, features,
                   results_index, train_vars>>

NextRegistry == LoadModelsCall \/ StoreChange

SpecRegistry == InitRegistry /\ [][NextRegistry]_vars

\* ------------------------------- the caller's event table under transform
Extractors == {"behavioral", "network", "temporal"}
\* timestamps as text, as read from a log file, or already parsed
TimestampDtypes == {"object", "datetime64[ns]"}

\* if not is_datetime64_any_dtype(df['timestamp']):
\*     df['timestamp'] = pd.to_datetime(df['timestamp'])
\* an assignment to the column of the DataFrame the caller passed in
EnsureDatetime(dtype) == IF dtype = "datetime64[ns]" THEN dtype ELSE "datetime64[ns]"

\* BehavioralFeatures.extract: _session_duration (lines 107-112) is reached
\* for session_duration and, through _action_frequency, for action_frequency
BehavioralDtype(cols, enabled, dtype) ==
    IF /\ enabled \cap {"session_duration", "action_frequency"} # {}
       /\ {"timestamp", "session_id"} \subseteq cols
    THEN EnsureDatetime(dtype) ELSE dtype

\* NetworkFeatures.extract: _get_session_duration (lines 157-161) is reached
\* from _port_scan_indicators (lines 96, 106-107)
NetworkDtype(cols, enabled, dtype) ==
    IF /\ "port_scan_indicators" \in enabled
       /\ {"timestamp", "session_id"} \subseteq cols
    THEN EnsureDatetime(dtype) ELSE dtype

\* TemporalFeatures.extract, lines 38-44
TemporalDtype(cols, enabled, dtype) ==
    IF "timestamp" \in cols THEN EnsureDatetime(dtype) ELSE dtype

InitInput ==
    /\ store = EmptyStore
    /\ log = {}
    /\ config = [enabled |-> TRUE, method |-> "voting", weights |-> NoWeights]
    /\ pc = "init"
    /\ results = EmptyFrame
    /\ DetectIdle
    /\ TrainIdle
    /\ AdapterIdle
    /\ FeatureFileIdle
    /\ AggregationsIdle
    /\ fe_pc = "start"
    /\ combined = << >>
    /\ transformed = << >>
    /\ columns \in SUBSET {"timestamp", "session_id"}
    /\ fe_config \in FeatureConfigs
    /\ extracted = << >>
    /\ events = << >>
    /\ session_out = NoSessionFeatures
    /\ timestamp_dtype \in IF "timestamp" \in columns THEN TimestampDtypes
                           ELSE {"absent"}
    /\ enabled_extractors \in SUBSET Extractors

\* transform, lines 48-66: the enabled extractors are run in turn on the
\* DataFrame the caller passed in
TransformInput ==
    /\ fe_pc = "start"
    /\ LET d1 == IF "behavioral" \in enabled_extractors
                 THEN BehavioralDtype(columns, fe_config, timestamp_dtype)
                 ELSE timestamp_dtype
           d2 == IF "network" \in enabled_extractors
                 THEN NetworkDtype(columns, fe_config, d1) ELSE d1
           d3 == IF "temporal" \in enabled_extractors
                 THEN TemporalDtype(columns, fe_config, d2) ELSE d2
       IN  timestamp_dtype' = d3
    /\ extracted' =
          (IF "behavioral" \in enabled_extractors
           THEN BehavioralExtract(columns, fe_config) ELSE << >>)
          \o (IF "network" \in enabled_extractors
              THEN NetworkExtract(columns, fe_config) ELSE << >>)
          \o (IF "temporal" \in enabled_extractors
              THEN TemporalExtract(columns, fe_config) ELSE << >>)
    /\ fe_pc' = "extractors_run"
    /\ log' = log \cup {<<"info", "extracting", x>> : x \in enabled_extractors}
                  \cup (IF "temporal" \in enabled_extractors /\ "timestamp" \notin columns
                        THEN {<<"warning", "no_timestamp", "">>} ELSE {})
    /\ UNCHANGED <<store, detect_vars, t_mode, model_name, enabled_models, t_pc,
                   t_idx, fitted, trained_models, t_outcome, attempted, io_vars,
                   combined, transformed, columns, fe_config, session_vars,
                   adapter_vars, file_vars, aggregations, enabled_extractors>>

NextInput == TransformInput

SpecInput == InitInput /\ [][NextInput]_vars

\* ================================================================ claims
\* Read off the verdict table, independently of how it was computed.
Contributing == {n \in ArtifactNames : HasCol(results, PredKey(n))}
Scoring == {n \in ArtifactNames : HasCol(results, ScoreKey(n))}
VotesFor(r, v) == {n \in Contributing : GetCol(results, PredKey(n))[r] = v}

RECURSIVE Sum(_, _)
Sum(f, S) ==
    IF S = {} THEN 0
    ELSE LET x == CHOOSE y \in S : TRUE IN f[x] + Sum(f, S \ {x})

RECURSIVE Product(_, _)
Product(f, S) ==
    IF S = {} THEN 1
    ELSE LET x == CHOOSE y \in S : TRUE IN f[x] * Product(f, S \ {x})

Registered == RegNames(models)
RaisedInPredict == {n \in Registered : <<n, "predict">> \in failed}
RaisedAnywhere == {n \in Registered : \E ph \in {"predict", "score"} : <<n, ph>> \in failed}
Evaluated == {n \in Registered : <<"info", "running", n>> \in log}

\* a verdict for every input row, taken from the detectors that are left
VerdictForAllRows ==
    /\ outcome = "returned"
    /\ HasCol(results, EnsemblePredKey)
    /\ HasCol(results, IsAnomalyKey)
    /\ DOMAIN GetCol(results, IsAnomalyKey) = Rows
    /\ \A r \in Rows : \A v \in Labels :
          2 * Cardinality(VotesFor(r, v)) > Cardinality(Contributing)
              => GetCol(results, EnsemblePredKey)[r] = v

\* C1: when a registered detector's predict raises, detect does not raise; it
\* returns a verdict for every row from the remaining detectors, the failing
\* detector has neither column, and the detectors after it are evaluated.
C1_DetectorIsolation ==
    (pc = "done" /\ RaisedInPredict # {}) =>
        /\ VerdictForAllRows
        /\ \A n \in RaisedInPredict :
              ~HasCol(results, PredKey(n)) /\ ~HasCol(results, ScoreKey(n))
        /\ Evaluated = Registered

\* The part of C1 the code does keep: with the ensemble enabled, a raising
\* predict is isolated.
C1_IsolationWhenEnsembleEnabled ==
    (pc = "done" /\ RaisedInPredict # {} /\ config.enabled) =>
        /\ VerdictForAllRows
        /\ \A n \in RaisedInPredict :
              ~HasCol(results, PredKey(n)) /\ ~HasCol(results, ScoreKey(n))
        /\ Evaluated = Registered

\* C2: a detector that raised anywhere in its evaluation (predict or scoring)
\* has neither its prediction nor its score column in the returned table, so
\* it casts no vote.
C2_FailedDetectorHasNoColumns ==
    (pc = "done" /\ outcome = "returned") =>
        \A n \in RaisedAnywhere :
            ~HasCol(results, PredKey(n)) /\ ~HasCol(results, ScoreKey(n))

\* C3: under 'voting', a value that strictly more than half of the
\* contributing detectors predict for a row is that row's
\* ensemble_prediction.
C3_MajorityVoting ==
    (pc = "predicted" /\ config.method = "voting") =>
        \A r \in Rows : \A v \in Labels :
            2 * Cardinality(VotesFor(r, v)) > Cardinality(Contributing)
                => GetCol(results, EnsemblePredKey)[r] = v

C3_Witness ==
    /\ pc = "predicted"
    /\ config.method = "voting"
    /\ Contributing = Names
    /\ GetCol(results, PredKey("isolation_forest"))[1] = 1
    /\ GetCol(results, PredKey("lstm"))[1] = 1
    /\ GetCol(results, PredKey("one_class_svm"))[1] = -1
    /\ GetCol(results, PredKey("isolation_forest"))[2] = -1
    /\ GetCol(results, PredKey("lstm"))[2] = -1
    /\ GetCol(results, PredKey("one_class_svm"))[2] = 1
    /\ GetCol(results, EnsemblePredKey)[1] = 1
    /\ GetCol(results, EnsemblePredKey)[2] = -1

\* C4: under 'weighted', a row's ensemble_prediction is -1 exactly when the
\* weighted average of the contributing predictions is below zero, i.e. when
\* the weight behind -1 exceeds the weight behind +1 (an unconfigured
\* detector weighs 1); otherwise, a zero average included, it is +1.
ConfiguredWeight ==
    [n \in ArtifactNames |->
        IF n \in DOMAIN config.weights THEN config.weights[n] ELSE 1]

C4_WeightedVoting ==
    (pc = "predicted" /\ config.method = "weighted") =>
        \A r \in Rows :
            LET e == GetCol(results, EnsemblePredKey)[r]
                against == Sum(ConfiguredWeight, VotesFor(r, -1))
                for == Sum(ConfiguredWeight, VotesFor(r, 1))
            IN  /\ e \in Labels
                /\ e = -1 <=> against > for

C4_Witness ==
    /\ pc = "predicted"
    /\ config.method = "weighted"
    /\ config.weights = [n \in {"isolation_forest", "lstm"} |->
                            IF n = "lstm" THEN 3 ELSE 1]
    /\ Contributing = {"isolation_forest", "lstm"}
    /\ GetCol(results, PredKey("isolation_forest"))[1] = 1
    /\ GetCol(results, PredKey("lstm"))[1] = -1
    /\ GetCol(results, EnsemblePredKey)[1] = -1

\* C5: when no detector contributes (empty registry, or every registered
\* detector raised), detect returns ensemble_prediction = +1,
\* ensemble_score = 0 and is_anomaly = False for every row.
C5_NoContributorAllNormal ==
    (pc = "done" /\ RaisedAnywhere = Registered) =>
        /\ outcome = "returned"
        /\ HasCol(results, EnsemblePredKey)
        /\ HasCol(results, EnsembleScoreKey)
        /\ HasCol(results, IsAnomalyKey)
        /\ \A r \in Rows :
              /\ GetCol(results, EnsemblePredKey)[r] = 1
              /\ GetCol(results, EnsembleScoreKey)[r].num = 0
              /\ GetCol(results, IsAnomalyKey)[r] = FALSE

\* The part of C5 the code does keep: a returned table without any
\* per-detector column is all normal with score 0.
C5_NoColumnsAllNormal ==
    (pc = "done" /\ outcome = "returned" /\ Contributing = {}) =>
        \A r \in Rows :
            /\ GetCol(results, EnsemblePredKey)[r] = 1
            /\ GetCol(results, EnsembleScoreKey)[r].num = 0
            /\ GetCol(results, IsAnomalyKey)[r] = FALSE

\* C6: with at least one score column, a row's ensemble_score is the
\* arithmetic mean over the scoring detectors of the detector's score min-max
\* normalised over the batch (a constant column normalises to 0), hence lies
\* in [0, 1].  The mean is stated cross-multiplied by the product of the
\* column ranges.
Lowest(col) == CHOOSE m \in {col[r] : r \in Rows} : \A r \in Rows : m <= col[r]
Highest(col) == CHOOSE m \in {col[r] : r \in Rows} : \A r \in Rows : m >= col[r]

C6_EnsembleScoreIsMean ==
    (pc = "scored" /\ Scoring # {}) =>
        LET S == Scoring
            col == [n \in S |-> GetCol(results, ScoreKey(n))]
            lo == [n \in S |-> Lowest(col[n])]
            spread == [n \in S |->
                        IF Highest(col[n]) = lo[n] THEN 1 ELSE Highest(col[n]) - lo[n]]
            all == Product(spread, S)
            ens == GetCol(results, EnsembleScoreKey)
        IN  \A r \in Rows :
                LET part == [n \in S |-> (col[n][r] - lo[n]) * (all \div spread[n])]
                IN  /\ ens[r].den > 0
                    /\ ens[r].num * Cardinality(S) * all = ens[r].den * Sum(part, S)
                    /\ 0 <= ens[r].num /\ ens[r].num <= ens[r].den

C6_Witness ==
    /\ pc = "scored"
    /\ Scoring = {"isolation_forest", "lstm"}
    /\ Contributing = Names
    /\ GetCol(results, ScoreKey("isolation_forest"))[1] = 1
    /\ GetCol(results, ScoreKey("isolation_forest"))[2] = 2
    /\ \A r \in Rows : GetCol(results, ScoreKey("lstm"))[r] = 2
    /\ GetCol(results, EnsembleScoreKey)[1] = [num |-> 0, den |-> 1]
    /\ GetCol(results, EnsembleScoreKey)[2].num * 2 = GetCol(results, EnsembleScoreKey)[2].den

\* C7: detect raises only when the registry is empty (and the configuration
\* asks for a non-trivial ensemble); with a non-empty registry, whatever the
\* failures and the ensemble configuration ('enabled' false included), it
\* returns a table that has is_anomaly.
C7_RaisesOnlyOnEmptyRegistry ==
    pc = "done" =>
        /\ outcome = "raised" => models = << >>
        /\ models # << >> => outcome = "returned" /\ HasCol(results, IsAnomalyKey)

\* C8: a detect over an empty registry logs a warning.
C8_EmptyRegistryWarns ==
    (pc = "done" /\ models = << >>) => \E e \in log : e[1] = "warning"

\* C9: a configured method other than 'voting' and 'weighted' makes detect
\* fail before any detector is evaluated and before any ensemble value is
\* computed.
UnknownMethod == config.method \notin {"voting", "weighted"}

C9_UnknownMethodFailsFast ==
    (pc = "done" /\ UnknownMethod) =>
        /\ outcome = "raised"
        /\ Evaluated = {}
        /\ ~HasCol(results, EnsemblePredKey)

\* C9 as amended: an unknown method is not rejected; every registered
\* detector is evaluated and the ensemble prediction detect computes is the
\* majority vote of 'voting' (-1 on an even split, +1 without any vote).
C9_UnknownMethodDefaultsToVoting ==
    (pc = "done" /\ UnknownMethod) =>
        /\ Evaluated = Registered
        /\ HasCol(results, EnsemblePredKey) <=> config.enabled
        /\ config.enabled =>
              /\ outcome = "returned"
              /\ \A r \in Rows :
                    GetCol(results, EnsemblePredKey)[r] =
                        IF /\ Contributing # {}
                           /\ 2 * Cardinality(VotesFor(r, -1)) >= Cardinality(Contributing)
                        THEN -1 ELSE 1

C9_Witness ==
    /\ pc = "done"
    /\ UnknownMethod
    /\ config.enabled
    /\ "lstm" \in DOMAIN config.weights
    /\ outcome = "returned"
    /\ Contributing = {"isolation_forest", "lstm"}
    /\ GetCol(results, PredKey("isolation_forest"))[1] = -1
    /\ GetCol(results, PredKey("lstm"))[1] = 1
    /\ GetCol(results, EnsemblePredKey)[1] = -1

\* C10: a requested detector name outside the trainer's registry makes
\* training fail before any detector is fitted and before any artifact is
\* persisted (train_model, train_all_models, the full pipeline).
Requested ==
    IF t_mode = "train_model" THEN {model_name}
    ELSE {enabled_models[i] : i \in 1 .. Len(enabled_models)}

C10_UnknownNameFailsFast ==
    (t_mode # "none" /\ Requested \ TrainerClasses # {}) =>
        /\ fitted = {}
        /\ Stored(store) = {}
        /\ t_pc = "done" => t_outcome = "raised"

\* The part of C10 the code does keep: a direct train_model of an unknown
\* name raises before anything is fitted or saved.
C10_DirectCallFailsFast ==
    (t_mode = "train_model" /\ model_name \notin TrainerClasses) =>
        /\ fitted = {}
        /\ Stored(store) = {}
        /\ t_pc = "done" => t_outcome = "raised"

\* C11: train_all_models attempts every configured detector, in the configured
\* order, whatever failed before; the mapping it returns holds exactly the
\* names whose fit and persist both completed, and each of them has an
\* artifact in the model store.
Completed == {attempted[i].name : i \in {j \in 1 .. Len(attempted) : attempted[j].result = "ok"}}

C11_TrainAllPartialSuccess ==
    (t_mode = "train_all_models" /\ t_pc = "done") =>
        /\ t_outcome = "returned"
        /\ Len(attempted) = Len(enabled_models)
        /\ \A i \in 1 .. Len(attempted) : attempted[i].name = enabled_models[i]
        /\ trained_models = Completed
        /\ trained_models \subseteq Stored(store)

C11_Witness ==
    /\ t_mode = "train_all_models"
    /\ t_pc = "done"
    /\ Len(attempted) = 3
    /\ attempted[1].result = "fit_raised"
    /\ attempted[2].result = "save_raised"
    /\ attempted[3].result = "ok"
    /\ attempted[3].name \notin {attempted[1].name, attempted[2].name}
    /\ trained_models = {attempted[3].name}

\* C12: after any sequence of save_model calls, load_model(name) raises the
\* not-found error exactly when nothing was saved under name, and otherwise
\* returns the detector most recently saved under that name.
SavesUnder(name) == {i \in 1 .. Len(saved) : saved[i].name = name}

LastSaveUnder(name) ==
    CHOOSE i \in SavesUnder(name) : \A j \in SavesUnder(name) : j <= i

C12_LoadReturnsLastSaved ==
    (t_mode = "store" /\ t_pc = "loaded") =>
        /\ t_outcome = "raised" <=> SavesUnder(model_name) = {}
        /\ SavesUnder(model_name) # {} =>
              /\ t_outcome = "returned"
              /\ loaded = saved[LastSaveUnder(model_name)].artifact

C12_Witness ==
    /\ t_mode = "store"
    /\ t_pc = "loaded"
    /\ Len(saved) = 3
    /\ saved[1] = [name |-> "lstm", artifact |-> 2]
    /\ saved[2] = [name |-> "autoencoder", artifact |-> 2]
    /\ saved[3] = [name |-> "lstm", artifact |-> 1]
    /\ model_name = "lstm"
    /\ loaded = 1

\* C13: no step of a detect call changes the model registry (its names, their
\* order, the detector bound to each) or the feature table it was given,
\* whether or not a detector raises during the call.
InDetect == pc \in {"init", "loaded", "loop"}

C13_DetectFrame ==
    [][(InDetect /\ pc' \in {"loop", "done"}) =>
            models' = models /\ features' = features]_vars

C13_Witness ==
    /\ pc = "done"
    /\ Len(models) = 2
    /\ <<models[1].name, "predict">> \in failed
    /\ HasCol(results, ScoreKey(models[2].name))
    /\ features.index = LabelIndex

\* C14: every numeric column of the matrix transform returns is free of
\* missing and infinite values and lies in [0, 1]; each value is
\* (x - min) / (max - min) over its column, x being the extracted value with
\* NaN and +-inf read as 0, and a constant column is all zeros.
Filled(c) == IF c.kind = "num" THEN c.v ELSE 0

C14_NormalizedFeatures ==
    fe_pc = "transformed" =>
        /\ Len(transformed) = Len(combined)
        /\ \A i \in 1 .. Len(combined) :
              combined[i].numeric =>
                 LET x == [r \in Rows |-> Filled(combined[i].vals[r])]
                     lo == CHOOSE m \in {x[r] : r \in Rows} : \A r \in Rows : m <= x[r]
                     hi == CHOOSE m \in {x[r] : r \in Rows} : \A r \in Rows : m >= x[r]
                 IN  \A r \in Rows :
                        LET y == transformed[i].vals[r]
                        IN  /\ y.kind = "num"
                            /\ y.v.den > 0
                            /\ 0 <= y.v.num /\ y.v.num <= y.v.den
                            /\ IF hi = lo THEN y.v.num = 0
                               ELSE y.v.num * (hi - lo) = (x[r] - lo) * y.v.den

C14_Witness ==
    /\ fe_pc = "transformed"
    /\ Len(combined) = 2
    /\ combined[1].vals[1] = NaN
    /\ combined[1].vals[2] = Cell("num", -1)
    /\ transformed[1].vals[1] = Cell("num", Frac(1, 1))
    /\ transformed[1].vals[2] = Cell("num", Frac(0, 1))
    /\ combined[2].vals[1] = Cell("inf", 0)
    /\ combined[2].vals[2] = Cell("ninf", 0)
    /\ \A r \in Rows : r > 2 => combined[2].vals[r] = NaN
    /\ \A r \in Rows : transformed[2].vals[r] = Cell("num", Frac(0, 1))

\* C15: an enabled feature whose required input column is absent still gets
\* its column(s), filled with zeros, so the names and order of the emitted
\* columns depend on the configuration only, not on which input columns the
\* event table has.
Required(f) ==
    CASE f = "failed_login_count" -> {"action", "status_code"}
      [] f = "privilege_escalation_attempts" -> {"action"}
      [] f = "unique_resources_accessed" -> {"resource", "session_id"}
      [] f = "session_duration" -> {"timestamp", "session_id"}
      [] f = "bytes_transferred" -> {"bytes_transferred"}
      [] f = "action_velocity" -> {"timestamp", "session_id"}
      [] f \in Range(TemporalNames) -> {"timestamp"}
      [] OTHER -> {"session_id"}

EmittedNames == [i \in 1 .. Len(extracted) |-> extracted[i].name]

ConfiguredNames ==
    LET all == BehavioralExtract(InputColumns, fe_config)
                   \o NetworkExtract(InputColumns, fe_config)
                   \o TemporalExtract(InputColumns, fe_config)
    IN  [i \in 1 .. Len(all) |-> all[i].name]

ZeroFilled(f) ==
    \A i \in 1 .. Len(FeatureOutputs(f)) :
        \E j \in 1 .. Len(extracted) :
            extracted[j] = Col(FeatureOutputs(f)[i], "zeros")

C15_AbsentColumnGivesZeros ==
    fe_pc = "extracted" =>
        /\ EmittedNames = ConfiguredNames
        /\ \A f \in fe_config : ~(Required(f) \subseteq columns) => ZeroFilled(f)

\* The part of C15 the code does keep: the behavioral features, the byte
\* counts and the two scores are zero-filled when their input is absent, and
\* with a timestamp column the emitted names depend on the configuration
\* only.
C15_ZeroFillOutsideTemporal ==
    fe_pc = "extracted" =>
        /\ "timestamp" \in columns => EmittedNames = ConfiguredNames
        /\ \A f \in fe_config \ (Range(TemporalNames) \cup {"connection_count", "unique_destinations"}) :
              ~(Required(f) \subseteq columns) => ZeroFilled(f)

\* C16: for the LSTM adapter with sequence length k and a batch of n >= 0 rows
\* (n <= k included), predict does not raise and returns exactly n labels in
\* {-1, +1}, the first min(k, n) of them +1.
LSTMPredicted == a_kind = "lstm" /\ a_pc = "predict"

PaddedLabels(n, k) ==
    /\ a_result.how = "ok"
    /\ Len(a_result.vals) = n
    /\ \A i \in 1 .. n : a_result.vals[i] \in Labels
    /\ \A i \in 1 .. n : i <= k => a_result.vals[i] = 1

C16_LSTMPredictAligned ==
    LSTMPredicted => PaddedLabels(Len(a_batch), sequence_length)

\* The part of C16 the code does keep: batches longer than the sequence
\* length, and batches of at most one row.
C16_AlignedOutsideShortBatches ==
    (LSTMPredicted /\ (Len(a_batch) > sequence_length \/ Len(a_batch) <= 1)) =>
        PaddedLabels(Len(a_batch), sequence_length)

\* C17: in every table detect returns, is_anomaly is true for a row exactly
\* when the row's ensemble_prediction is -1; the table has one row per input
\* sample, under the index of the input features; and ensemble_prediction is
\* -1 or +1 (the detectors predicting in {-1, +1}).
C17_VerdictTable ==
    (pc = "done" /\ outcome = "returned") =>
        /\ results_index = features.index
        /\ \A i \in 1 .. Len(results) : DOMAIN results[i].vals = DOMAIN features.values
        /\ HasCol(results, EnsemblePredKey) /\ HasCol(results, IsAnomalyKey)
        /\ \A r \in Rows :
              /\ GetCol(results, EnsemblePredKey)[r] \in Labels
              /\ GetCol(results, IsAnomalyKey)[r] <=>
                    GetCol(results, EnsemblePredKey)[r] = -1

C17_Witness ==
    /\ pc = "done"
    /\ outcome = "returned"
    /\ features.index = LabelIndex
    /\ Contributing = StoreNames
    /\ GetCol(results, IsAnomalyKey)[1] = TRUE
    /\ GetCol(results, IsAnomalyKey)[2] = FALSE
    /\ GetCol(results, PredKey("lstm"))[1] = -1
    /\ GetCol(results, PredKey("isolation_forest"))[1] = 1

\* C18: the threshold of the autoencoder and LSTM adapters is written by fit
\* only: after any predict or score_samples calls it is still the value the
\* last fit computed, and the label predict gives a scored sample is -1
\* exactly when that sample's own error exceeds it, whatever else the batch
\* holds.
ScoredRows ==
    IF a_kind = "lstm"
    THEN {i \in 1 .. Len(a_batch) : i > sequence_length}
    ELSE 1 .. Len(a_batch)

C18_ThresholdFrozen ==
    a_pc \in {"predict", "score_samples"} =>
        /\ threshold_value = fit_threshold
        /\ (a_pc = "predict" /\ a_result.how = "ok") =>
              \A i \in ScoredRows :
                  a_result.vals[i] = IF a_batch[i] > fit_threshold THEN -1 ELSE 1

C18_Witness ==
    /\ a_pc = "predict"
    /\ a_kind = "lstm"
    /\ sequence_length = 1
    /\ fit_threshold = 1
    /\ a_batch = <<2, 2, 1>>
    /\ a_result = Ok(<<1, -1, 1>>)

\* C19: for every adapter a higher score_samples value means more normal: of
\* two samples scored by the same fitted adapter, if the one with the lower
\* (or equal) score is labelled +1 then so is the other.
ScoreOfRow(i) ==
    AdapterScoreSamples(a_kind, sequence_length, a_batch)
        [IF a_kind = "lstm" THEN i - sequence_length ELSE i]

C19_HigherScoreMoreNormal ==
    (a_pc = "predict" /\ a_result.how = "ok") =>
        \A x, y \in ScoredRows :
            (ScoreOfRow(x) >= ScoreOfRow(y) /\ a_result.vals[y] = 1)
                => a_result.vals[x] = 1

\* What the code does instead: for the autoencoder and the LSTM the score is
\* an error, and the lower score is the more normal one.
C19_LowerScoreMoreNormal ==
    (a_pc = "predict" /\ a_result.how = "ok") =>
        \A x, y \in ScoredRows :
            (ScoreOfRow(x) <= ScoreOfRow(y) /\ a_result.vals[y] = 1)
                => a_result.vals[x] = 1

\* C20: for every session, one of a single event or of events that share a
\* timestamp included, the session duration is >= 0, nothing divides by
\* zero, and action_frequency and action_velocity are finite and
\* non-negative.
FiniteNonNegative(c) == c.kind = "num" /\ c.v.den > 0 /\ c.v.num >= 0

C20_SessionFeaturesFinite ==
    fe_pc = "session_extracted" =>
        \A r \in Rows :
            /\ session_out.session_duration[r] >= 0
            /\ FiniteNonNegative(session_out.action_frequency[r])
            /\ session_out.action_velocity # << >> =>
                  FiniteNonNegative(session_out.action_velocity[r])

C20_Witness ==
    /\ fe_pc = "session_extracted"
    /\ columns = {"timestamp", "session_id"}
    /\ events[1] = [session_id |-> 1, timestamp |-> 30]
    /\ events[2] = [session_id |-> 2, timestamp |-> 30]
    /\ \A r \in Rows : r > 2 => events[r] = [session_id |-> 2, timestamp |-> 30]
    /\ session_out.session_duration[1] = 0
    /\ session_out.action_frequency[1] = Cell("num", Frac(1, 1))
    /\ session_out.action_velocity[2] = Cell("num", Frac(NumRows - 1, 1))

\* ---- C21
Shape(df) == <<NumRows, Len(df.cols)>>
ColumnNames(df) == [i \in 1 .. Len(df.cols) |-> df.cols[i].name]
ColumnValues(df) == [i \in 1 .. Len(df.cols) |-> df.cols[i].vals]

EvenSplit(r) ==
    /\ Contributing # {}
    /\ Cardinality(VotesFor(r, -1)) = Cardinality(VotesFor(r, 1))

EqualWeights == \A m, n \in Contributing : ConfiguredWeight[m] = ConfiguredWeight[n]

\* C22: a row whose votes are split evenly between -1 and +1 gets the
\* ensemble_prediction -1 under 'voting', whichever detectors cast which
\* vote, and +1 under 'weighted' with equal weights
C22_EvenSplit ==
    pc = "predicted" =>
        \A r \in Rows :
            EvenSplit(r) =>
                /\ config.method = "voting"
                      => GetCol(results, EnsemblePredKey)[r] = -1
                /\ (config.method = "weighted" /\ EqualWeights)
                      => GetCol(results, EnsemblePredKey)[r] = 1

\* both orders of an even split under 'voting', in one table
C22_Witness ==
    /\ pc = "predicted"
    /\ config.method = "voting"
    /\ Contributing = {"isolation_forest", "lstm"}
    /\ GetCol(results, PredKey("isolation_forest"))[1] = 1
    /\ GetCol(results, PredKey("lstm"))[1] = -1
    /\ GetCol(results, PredKey("isolation_forest"))[2] = -1
    /\ GetCol(results, PredKey("lstm"))[2] = 1
    /\ \A r \in Rows : GetCol(results, EnsemblePredKey)[r] = -1

\* ---- C23
LoginColumns == {"session_id", "action", "status_code"}

\* the events of row r's session whose status code is 401 or 403 and whose
\* action matches 'login'
SessionFailedLogins(r) ==
    {q \in Rows : /\ events[q].session_id = events[r].session_id
                  /\ events[q].status_code \in {401, 403}
                  /\ events[q].action \in {"login", "LOGIN_RETRY"}}

\* C23: every event row of a session carries the same failed_login_count,
\* the number of failed logins of the session, also the rows that are not
\* failed logins themselves
C23_SessionFailedLoginCount ==
    (fe_pc = "logins_counted" /\ columns = LoginColumns) =>
        \A r \in Rows :
            session_out.failed_login_count[r] = Cardinality(SessionFailedLogins(r))

\* C23, the part that holds: the rows that are failed logins carry the
\* session's count, every other row carries 0
C23_FailedRowsCarryCount ==
    (fe_pc = "logins_counted" /\ columns = LoginColumns) =>
        \A r \in Rows :
            session_out.failed_login_count[r] =
                IF r \in SessionFailedLogins(r)
                THEN Cardinality(SessionFailedLogins(r)) ELSE 0

\* ---- C24
SessionOf(r) == {q \in Rows : events[q].session_id = events[r].session_id}
Latest(S) == CHOOSE t \in {events[q].timestamp : q \in S} :
                 \A q \in S : events[q].timestamp <= t
Earliest(S) == CHOOSE t \in {events[q].timestamp : q \in S} :
                   \A q \in S : events[q].timestamp >= t
SessionSeconds(r) == Latest(SessionOf(r)) - Earliest(SessionOf(r))

\* C24 as stated: action_velocity of every row is its session's action
\* count divided by max(session duration in minutes, 1), so a session lasting
\* less than 60 seconds has action_velocity equal to its action count
C24_VelocityOverAtLeastOneMinute ==
    (fe_pc = "session_extracted" /\ columns = {"timestamp", "session_id"}) =>
        \A r \in Rows :
            session_out.action_velocity[r] =
                IF SessionSeconds(r) < 60
                THEN Cell("num", Frac(Cardinality(SessionOf(r)), 1))
                ELSE Cell("num", Frac(60 * Cardinality(SessionOf(r)),
                                      SessionSeconds(r)))

\* C24 as the code has it: action_velocity of every row is its session's
\* action count divided by the session duration in minutes, a duration of
\* exactly zero being replaced by 1; a session lasting less than 60 seconds but
\* more than zero has an action_velocity above its action count
C24_VelocityOverDuration ==
    (fe_pc = "session_extracted" /\ columns = {"timestamp", "session_id"}) =>
        \A r \in Rows :
            /\ session_out.action_velocity[r] =
                  IF SessionSeconds(r) = 0
                  THEN Cell("num", Frac(Cardinality(SessionOf(r)), 1))
                  ELSE Cell("num", Frac(60 * Cardinality(SessionOf(r)),
                                        SessionSeconds(r)))
            /\ (0 < SessionSeconds(r) /\ SessionSeconds(r) < 60) =>
                  session_out.action_velocity[r].v.num >
                      Cardinality(SessionOf(r)) * session_out.action_velocity[r].v.den

C24_Witness ==
    /\ fe_pc = "session_extracted"
    /\ columns = {"timestamp", "session_id"}
    /\ events[1] = [session_id |-> 1, timestamp |-> 0]
    /\ events[2] = [session_id |-> 1, timestamp |-> 30]
    /\ \A r \in Rows : r > 2 => events[r] = [session_id |-> 2, timestamp |-> 90]
    /\ session_out.action_velocity[1] = Cell("num", Frac(4, 1))
    /\ session_out.action_velocity[2] = Cell("num", Frac(4, 1))

\* ---- C25
AggregatedColumn(name) ==
    CHOOSE i \in 1 .. Len(transformed) : transformed[i].name = name

\* aggregation agg contributes, for every extractor column, one suffixed column
\* holding on every row the aggregate over the row's session
FirstLevelColumns(agg) ==
    \A i \in 1 .. Len(combined) :
        LET name == Append(combined[i].name, agg)
        IN  /\ Cardinality({j \in 1 .. Len(transformed) :
                               transformed[j].name = name}) = 1
            /\ \A r \in Rows :
                  transformed[AggregatedColumn(name)].vals[r] =
                      Aggregate(agg, combined[i].vals,
                                {q \in Rows : events[q].session_id = events[r].session_id})

\* C25: with m numeric extractor columns and a distinct aggregations the
\* output has exactly m + a*m columns, one suffixed column per aggregation
\* and extractor column holding that aggregate over the row's session, and no
\* column is an aggregate of an aggregation column
C25_AggregationColumns ==
    (fe_pc = "aggregated" /\ "session_id" \in columns) =>
        /\ Len(transformed) = Len(combined) + Len(aggregations) * Len(combined)
        /\ \A k \in 1 .. Len(aggregations) : FirstLevelColumns(aggregations[k])
        /\ \A j \in 1 .. Len(transformed) : Len(transformed[j].name) <= 2

\* C25, the part that holds: the extractor columns are kept and every
\* aggregation contributes its column per extractor column
C25_FirstLevelAggregates ==
    (fe_pc = "aggregated" /\ "session_id" \in columns) =>
        /\ SubSeq(transformed, 1, Len(combined)) = combined
        /\ \A k \in 1 .. Len(aggregations) : FirstLevelColumns(aggregations[k])

\* ---- C26
RunsOfSession(r) == {q \in Rows : events[q].session_id = events[r].session_id}
SessionConnections(r) == Sum([q \in Rows |-> events[q].size], RunsOfSession(r))
SessionDestinations(r) == Sum([q \in Rows |-> events[q].dests], RunsOfSession(r))
SessionFailedConnections(r) ==
    Sum([q \in Rows |-> IF events[q].status_code \in {403, 404, 500, 503}
                        THEN events[q].size ELSE 0], RunsOfSession(r))
SessionSpan(r) ==
    LET d == Latest(RunsOfSession(r)) - Earliest(RunsOfSession(r))
    IN  IF d = 0 THEN 1 ELSE d
\* the connection rate of lines 107-108 above 20
SessionRateHigh(r) == SessionConnections(r) * 60 > 20 * (SessionSpan(r) + 60)

Tenths(destinations, rate, failures) ==
    Frac((IF destinations THEN 3 ELSE 0) + (IF rate THEN 3 ELSE 0)
             + (IF failures THEN 4 ELSE 0), 10)

\* C26: port_scan_score of every row is 0.3*[the session's unique
\* destinations > 10] + 0.3*[the session's connection rate > 20] +
\* 0.4*[the session's failed-connection count > 5], is the same on all rows
\* of a session and lies in [0, 1]
C26_PortScanScore ==
    (fe_pc = "port_scan_scored" /\ columns = NetworkColumns) =>
        \A r \in Rows :
            /\ session_out.port_scan_score[r] =
                  Tenths(SessionDestinations(r) > 10, SessionRateHigh(r),
                         SessionFailedConnections(r) > 5)
            /\ \A q \in RunsOfSession(r) :
                  session_out.port_scan_score[q] = session_out.port_scan_score[r]
            /\ session_out.port_scan_score[r].num >= 0
            /\ session_out.port_scan_score[r].num <= session_out.port_scan_score[r].den

\* C26, the part that holds: the third indicator counts for the events that
\* are failed connections themselves, and the score lies in [0, 1]
C26_ScoreOfFailedEvents ==
    (fe_pc = "port_scan_scored" /\ columns = NetworkColumns) =>
        \A r \in Rows :
            /\ session_out.port_scan_score[r] =
                  Tenths(SessionDestinations(r) > 10, SessionRateHigh(r),
                         /\ events[r].status_code \in {403, 404, 500, 503}
                         /\ SessionFailedConnections(r) > 5)
            /\ session_out.port_scan_score[r].num >= 0
            /\ session_out.port_scan_score[r].num <= session_out.port_scan_score[r].den

\* ---- C27
LSTMDetected == a_pc = "detect" /\ a_kind = "lstm" /\ Len(a_batch) > sequence_length

\* C27: for an LSTM detector of sequence length k in the registry and a
\* feature matrix of n > k rows, score_samples returns one score per input
\* row, detect's result holds lstm_prediction and lstm_score, and the
\* detector contributes to the ensemble score
C27_LSTMScoreAligned ==
    LSTMDetected =>
        /\ Len(a_result.vals) = Len(a_batch)
        /\ HasCol(results, PredKey("lstm"))
        /\ HasCol(results, ScoreKey("lstm"))
        /\ "lstm" \in Scoring

\* C27, what the code does instead: score_samples returns n - k scores, the
\* assignment of the score column raises, and the result holds lstm_prediction
\* without lstm_score
C27_LSTMScoreShort ==
    LSTMDetected =>
        /\ Len(a_result.vals) = Len(a_batch) - sequence_length
        /\ HasCol(results, PredKey("lstm"))
        /\ ~HasCol(results, ScoreKey("lstm"))
        /\ <<"lstm", "score">> \in failed
        /\ \A r \in Rows : GetCol(results, EnsembleScoreKey)[r] = Frac(0, 1)

\* ---- C28
RegisteredArtifact(reg, n) ==
    reg[CHOOSE i \in 1 .. Len(reg) : reg[i].name = n].artifact

\* C28: the first load_models of a freshly constructed detector leaves as
\* registry keys exactly the names of the store's artifacts that deserialize
\* (one that fails is skipped, the scan goes on); later calls only add names
\* or overwrite by name with the store's artifact and never remove a name,
\* also when its artifact has left the store
C28_RegistryOnlyGrows ==
    [][/\ RegNames(models) \subseteq RegNames(models')
       /\ (pc = "init" /\ pc' = "loaded") =>
             RegNames(models') = {n \in Stored(store) : <<n, "load">> \notin failed'}
       /\ \A n \in RegNames(models) :
             RegisteredArtifact(models', n) # RegisteredArtifact(models, n) =>
                 /\ store[n] = RegisteredArtifact(models', n)
                 /\ <<n, "load">> \notin failed']_vars

\* right after a second load: lstm has left the store and is still
\* registered, isolation_forest was overwritten by its new artifact
C28_Witness ==
    /\ pc = "reloaded"
    /\ RegNames(models) = StoreNames
    /\ store["lstm"] = 0
    /\ RegisteredArtifact(models, "lstm") = 1
    /\ store["isolation_forest"] = 2
    /\ RegisteredArtifact(models, "isolation_forest") = 2
    /\ <<"error", "failed_to_load", "isolation_forest">> \in log

\* ---- C29
LastAttempt(att) == att[Len(att)]

C30_InputUnchanged == [][timestamp_dtype' = timestamp_dtype]_vars

\* C30, the part that holds: the columns an extractor emits are the ones it
\* emits on the caller's table when run alone, whichever extractors ran
\* before it, and the only change to the table is a timestamp column of text
\* becoming datetime64
C30_ExtractorsIndependent ==
    [][/\ extracted' =
             (IF "behavioral" \in enabled_extractors
              THEN BehavioralExtract(columns, fe_config) ELSE << >>)
             \o (IF "network" \in enabled_extractors
                 THEN NetworkExtract(columns, fe_config) ELSE << >>)
             \o (IF "temporal" \in enabled_extractors
                 THEN TemporalExtract(columns, fe_config) ELSE << >>)
       /\ timestamp_dtype' # timestamp_dtype =>
             timestamp_dtype = "object" /\ timestamp_dtype' = "datetime64[ns]"]_vars

=============================================================================
